---- MODULE Spec2Model ----
(***************************************************************************)
(* Quiz-chain solver (src/app): the orchestrator QuizSolver.solve_quiz,    *)
(* its retry loop, the Answer Engine LLMClient.solve_quiz and the          *)
(* extractors, as a state machine.  A task is an asyncio coroutine: one    *)
(* action is the completion of the operation the task is awaiting plus     *)
(* all the code that runs up to its next await.                            *)
(***************************************************************************)
EXTENDS Integers, Sequences, FiniteSets, TLC

(***************************************************************************)
(* Program constants.                                                      *)
(***************************************************************************)
QUIZ_TIMEOUT == 180

MAX_PAYLOAD_SIZE == 1048576

max_retries_4 == 3 + 1

max_retries == 3

max_iterations_11 == 10 + 1

max_iterations == 10

(***************************************************************************)
(* Bounds of the model.                                                    *)
(***************************************************************************)
\* Elapsed times are counted up to MaxElapsed (> QUIZ_TIMEOUT) only.
MaxElapsed == 181

\* Durations a blocking operation may take, in seconds.
Durations == {0, 90}

Tasks == {1}

Urls == {"https://q/1", "https://q/2"}

Min(a, b) == IF a < b THEN a ELSE b

(***************************************************************************)
(* Texts.  An instruction text is a sequence of tokens: words, newlines    *)
(* and URLs (a URL token carries the run of trailing punctuation that the  *)
(* URL character class still matches).  A model response text is a         *)
(* sequence of characters.                                                 *)
(***************************************************************************)
W(v) == [k |-> "word", v |-> v, trail |-> ""]

NL == [k |-> "nl", v |-> "\n", trail |-> ""]

U(v, trail) == [k |-> "url", v |-> v, trail |-> trail]

SubmitUrlA == "https://q/submit"

PlainUrlB == "https://q/data"

HasSubmit(tok) == tok.v \in {"submit", SubmitUrlA}

HasPost(tok) == tok.v \in {"post"}

(***************************************************************************)
(* QuizSolver._extract_submit_url: five patterns in order; the matches of  *)
(* the first pattern that matches; among them the first containing         *)
(* "submit", else the first.                                               *)
(***************************************************************************)
NoUrl == ""

\* keyword kw occurs in the token's text (re.IGNORECASE: texts are lower case)
Has(tok, kw) ==
    \/ tok.v = kw
    \/ kw = "submit" /\ HasSubmit(tok)
    \/ kw = "post" /\ HasPost(tok)

RECURSIVE NextNonNL(_, _)
NextNonNL(s, i) ==
    IF i > Len(s) THEN 0
    ELSE IF s[i].k = "nl" THEN NextNonNL(s, i + 1) ELSE i

\* to\s+(https?://...) at token j: the index of the URL token, or 0
ToUrlAt(s, j) ==
    IF s[j].k = "word" /\ s[j].v = "to"
    THEN LET n == NextNonNL(s, j + 1)
         IN  IF n # 0 /\ s[n].k = "url" THEN n ELSE 0
    ELSE 0

\* .*?to\s+URL from token j on: "." does not match a newline
RECURSIVE LazyTo(_, _)
LazyTo(s, j) ==
    IF j > Len(s) \/ s[j].k = "nl" THEN 0
    ELSE IF ToUrlAt(s, j) # 0 THEN ToUrlAt(s, j)
    ELSE LazyTo(s, j + 1)

\* (.*?kw)* .*?to\s+URL from token j on, for the keywords kws in order
RECURSIVE LazyMatch(_, _, _)
LazyMatch(s, j, kws) ==
    IF kws = <<>> THEN LazyTo(s, j)
    ELSE IF j > Len(s) \/ s[j].k = "nl" THEN 0
    ELSE IF Has(s[j], Head(kws)) THEN LazyMatch(s, j + 1, Tail(kws))
    ELSE LazyMatch(s, j + 1, kws)

\* re.findall of a phrase pattern: the URL tokens captured, left to right
RECURSIVE FindAllPhrase(_, _, _)
FindAllPhrase(s, p, kws) ==
    IF p > Len(s) THEN <<>>
    ELSE LET n == IF Has(s[p], Head(kws))
                  THEN LazyMatch(s, p + 1, Tail(kws)) ELSE 0
         IN  IF n # 0 THEN <<n>> \o FindAllPhrase(s, n + 1, kws)
             ELSE FindAllPhrase(s, p + 1, kws)

\* re.findall of a URL pattern: the URL tokens (containing "submit" if asked)
RECURSIVE FindAllUrl(_, _, _)
FindAllUrl(s, p, onlySubmit) ==
    IF p > Len(s) THEN <<>>
    ELSE IF s[p].k = "url" /\ (onlySubmit => HasSubmit(s[p]))
         THEN <<p>> \o FindAllUrl(s, p + 1, onlySubmit)
         ELSE FindAllUrl(s, p + 1, onlySubmit)

\* the patterns with the one for URLs containing "submit" tried first
url_patterns_SubmitFirst(s) ==
    << FindAllUrl(s, 1, TRUE),
       FindAllPhrase(s, 1, <<"post">>),
       FindAllPhrase(s, 1, <<"submit">>),
       FindAllPhrase(s, 1, <<"post", "your", "answer">>),
       FindAllUrl(s, 1, FALSE) >>

url_patterns(s) ==
    << FindAllPhrase(s, 1, <<"post">>),
       FindAllPhrase(s, 1, <<"submit">>),
       FindAllPhrase(s, 1, <<"post", "your", "answer">>),
       FindAllUrl(s, 1, TRUE),
       FindAllUrl(s, 1, FALSE) >>

\* the text a URL token contributes to a match: [^\s<>"'\)]+ stops at ")"
Matched(tok) ==
    [v |-> tok.v, trail |-> IF tok.trail \in {")", ")."} THEN "" ELSE tok.trail]

\* match.rstrip('.,;:!?)')
RStrip(m) == m.v

\* the first match taken, whatever it contains
ChooseMatchFirst(s, matches) == RStrip(Matched(s[matches[1]]))

ChooseMatch(s, matches) ==
    LET withSubmit == {i \in 1..Len(matches) : HasSubmit(s[matches[i]])}
    IN  IF withSubmit # {}
        THEN RStrip(Matched(s[matches[CHOOSE i \in withSubmit :
                                        \A j \in withSubmit : i <= j]]))
        ELSE RStrip(Matched(s[matches[1]]))

\* the extractor falling back to a fixed URL
ExtractSubmitUrlWithDefault(s) ==
    LET pats == url_patterns(s)
        hit  == {i \in 1..Len(pats) : pats[i] # <<>>}
    IN  IF hit = {} THEN SubmitUrlA
        ELSE ChooseMatch(s, pats[CHOOSE i \in hit : \A j \in hit : i <= j])

ExtractSubmitUrl(s) ==
    LET pats == url_patterns(s)
        hit  == {i \in 1..Len(pats) : pats[i] # <<>>}
    IN  IF hit = {} THEN NoUrl
        ELSE ChooseMatch(s, pats[CHOOSE i \in hit : \A j \in hit : i <= j])

(***************************************************************************)
(* QuizSolver._extract_quiz_instructions on a parsed page: the result      *)
(* container, the scripts with an atob call, the fallbacks.                *)
(***************************************************************************)
\* A script is [atob, calls]: its text contains "atob", and the atob calls
\* in it, in order.  A call is [quote, space, payload]: its argument is a
\* literal in that kind of quote ("" when it is not a literal); white space
\* stands between the parentheses and the quotes; the payload is
\* [valid, ws, text]: it decodes (base64, then UTF-8) to an HTML fragment
\* whose visible text is text, and has white space or newlines inside.
Backtick == "backtick"

Quotes == {"double", "single"}

\* only the pattern for quoted strings without surrounding white space
atob_patterns_NoBacktick(sc) ==
    << FALSE, sc.quote \in Quotes /\ ~sc.space, FALSE >>

\* which of the three patterns match the call
atob_patterns(sc) ==
    << sc.quote = Backtick /\ ~sc.space,
       sc.quote \in Quotes /\ ~sc.space,
       sc.quote \in Quotes >>

\* .strip().replace('\n', '').replace(' ', '')
CleanPayload(p) == [p EXCEPT !.ws = FALSE]

\* base64.b64decode(..).decode('utf-8'), then the visible text; characters
\* outside the base64 alphabet are discarded by the decoder
B64Decode(p) == [ok |-> p.valid, text |-> p.text]

\* re.search(pattern, script_content): the first call of the script that
\* pattern i matches, or 0
MatchOf(sc, i) ==
    LET found == {k \in 1..Len(sc.calls) : atob_patterns(sc.calls[k])[i]}
    IN  IF found = {} THEN 0 ELSE CHOOSE k \in found : \A j \in found : k <= j

\* the payload pattern i finds in the script decodes
Decodes(sc, i) ==
    /\ MatchOf(sc, i) # 0
    /\ B64Decode(CleanPayload(sc.calls[MatchOf(sc, i)].payload)).ok

\* the script given up at the first payload that does not decode
DecodedByFirstMatchOnly(sc) ==
    LET hit == {i \in 1..3 : MatchOf(sc, i) # 0}
    IN  IF hit = {} THEN 0
        ELSE LET i == CHOOSE i \in hit : \A j \in hit : i <= j
             IN  IF Decodes(sc, i) THEN i ELSE 0

\* lines 210-222: the patterns are tried in order, a payload that does not
\* decode is skipped (continue): the first pattern whose payload decodes, or 0
DecodedBy(sc) ==
    LET ok == {i \in 1..3 : Decodes(sc, i)}
    IN  IF ok = {} THEN 0 ELSE CHOOSE i \in ok : \A j \in ok : i <= j

\* some pattern finds a call whose payload decodes
ScriptDecodes(sc) == DecodedBy(sc) # 0

\* the visible text of the fragment decoded from the script
DecodedText(sc) ==
    B64Decode(CleanPayload(sc.calls[MatchOf(sc, DecodedBy(sc))].payload)).text

\* the first script whose atob payload decodes, or 0
RECURSIVE FirstDecodable(_, _)
FirstDecodable(scripts, i) ==
    IF i > Len(scripts) THEN 0
    ELSE IF scripts[i].atob /\ ScriptDecodes(scripts[i]) THEN i
    ELSE FirstDecodable(scripts, i + 1)

ExtractInstructions(html) ==
    IF html.result_div /\ html.result_text # <<>> THEN html.result_text
    ELSE IF FirstDecodable(html.scripts, 1) # 0
         THEN DecodedText(html.scripts[FirstDecodable(html.scripts, 1)])
    ELSE IF html.result_div THEN html.result_text
    ELSE html.page_text

(***************************************************************************)
(* JSON values and json.loads on a character sequence.  A value is a       *)
(* record [t, v]: t its Python type, v its content (a float keeps its      *)
(* literal).  Texts hold no backslash, so strings have no escapes.         *)
(***************************************************************************)
WS == {" ", "\n", "\t", "\r"}

Digits == {"0", "1", "2", "3", "4", "5", "6", "7", "8", "9"}

DigitVal(c) ==
    CASE c = "0" -> 0 [] c = "1" -> 1 [] c = "2" -> 2 [] c = "3" -> 3
      [] c = "4" -> 4 [] c = "5" -> 5 [] c = "6" -> 6 [] c = "7" -> 7
      [] c = "8" -> 8 [] c = "9" -> 9

None == [t |-> "NoneType", v |-> <<>>]

PyBool(b) == [t |-> "bool", v |-> b]

PyInt(n) == [t |-> "int", v |-> n]

PyFloat(lit) == [t |-> "float", v |-> lit]

PyStr(cs) == [t |-> "str", v |-> cs]

PyList(items) == [t |-> "list", v |-> items]

PyDict(f) == [t |-> "dict", v |-> f]

Fail == [ok |-> FALSE, val |-> None, pos |-> 0]

Ok(val, pos) == [ok |-> TRUE, val |-> val, pos |-> pos]

\* the literal w stands in s at position i
Lit(s, i, w) == i + Len(w) - 1 <= Len(s) /\ SubSeq(s, i, i + Len(w) - 1) = w

RECURSIVE SkipWS(_, _)
SkipWS(s, i) == IF i <= Len(s) /\ s[i] \in WS THEN SkipWS(s, i + 1) ELSE i

RECURSIVE DigitsEnd(_, _)
DigitsEnd(s, i) ==
    IF i <= Len(s) /\ s[i] \in Digits THEN DigitsEnd(s, i + 1) ELSE i

RECURSIVE IntOf(_)
IntOf(ds) ==
    IF ds = <<>> THEN 0
    ELSE 10 * IntOf(SubSeq(ds, 1, Len(ds) - 1)) + DigitVal(ds[Len(ds)])

\* int(lit) for an optional minus and digits
PyIntOf(lit) ==
    IF lit[1] = "-" THEN PyInt(0 - IntOf(Tail(lit))) ELSE PyInt(IntOf(lit))

\* json.scanner NUMBER_RE = (-?(?:0|[1-9]\d*))(\.\d+)?([eE][-+]?\d+)? at i
ParseNumber(s, i) ==
    LET j0 == IF s[i] = "-" THEN i + 1 ELSE i
    IN  IF j0 > Len(s) \/ s[j0] \notin Digits THEN Fail
        ELSE
        LET intEnd  == IF s[j0] = "0" THEN j0 + 1 ELSE DigitsEnd(s, j0)
            hasFrac == /\ intEnd + 1 <= Len(s)
                       /\ s[intEnd] = "."
                       /\ s[intEnd + 1] \in Digits
            fracEnd == IF hasFrac THEN DigitsEnd(s, intEnd + 1) ELSE intEnd
            expDig  == IF fracEnd + 1 <= Len(s) /\ s[fracEnd + 1] \in {"+", "-"}
                       THEN fracEnd + 2 ELSE fracEnd + 1
            hasExp  == /\ fracEnd <= Len(s)
                       /\ s[fracEnd] \in {"e", "E"}
                       /\ expDig <= Len(s)
                       /\ s[expDig] \in Digits
            end     == IF hasExp THEN DigitsEnd(s, expDig) ELSE fracEnd
        IN  IF hasFrac \/ hasExp
            THEN Ok(PyFloat(SubSeq(s, i, end - 1)), end)
            ELSE Ok(PyIntOf(SubSeq(s, i, end - 1)), end)

\* the closing quote of a string opened before i, or 0 (strict: no control
\* characters inside a string)
RECURSIVE StringEnd(_, _)
StringEnd(s, i) ==
    IF i > Len(s) \/ s[i] \in {"\n", "\t", "\r", "\\"} THEN 0
    ELSE IF s[i] = "\"" THEN i
    ELSE StringEnd(s, i + 1)

ParseString(s, i) ==
    LET e == StringEnd(s, i + 1)
    IN  IF e = 0 THEN Fail ELSE Ok(PyStr(SubSeq(s, i + 1, e - 1)), e + 1)

\* dict[k] = v: a repeated key keeps the last value
Put(f, k, v) == [x \in DOMAIN f \cup {k} |-> IF x = k THEN v ELSE f[x]]

EmptyDict == [x \in {} |-> None]

RECURSIVE ParseValue(_, _)
RECURSIVE ParseArrayRest(_, _, _)
RECURSIVE ParseObjectRest(_, _, _)

\* json.decoder.JSONArray after "[" or ",": a value is expected at i
ParseArrayRest(s, i, acc) ==
    LET r == ParseValue(s, i)
    IN  IF ~r.ok THEN Fail
        ELSE LET j == SkipWS(s, r.pos)
             IN  IF j > Len(s) THEN Fail
                 ELSE IF s[j] = "]" THEN Ok(PyList(Append(acc, r.val)), j + 1)
                 ELSE IF s[j] = ","
                      THEN ParseArrayRest(s, SkipWS(s, j + 1), Append(acc, r.val))
                 ELSE Fail

\* json.decoder.JSONObject after "{" or ",": a key is expected at i
ParseObjectRest(s, i, acc) ==
    IF i > Len(s) \/ s[i] # "\"" THEN Fail
    ELSE
    LET k == ParseString(s, i)
    IN  IF ~k.ok THEN Fail
        ELSE
        LET c == SkipWS(s, k.pos)
        IN  IF c > Len(s) \/ s[c] # ":" THEN Fail
            ELSE
            LET r == ParseValue(s, SkipWS(s, c + 1))
            IN  IF ~r.ok THEN Fail
                ELSE
                LET j == SkipWS(s, r.pos)
                    f == Put(acc, k.val.v, r.val)
                IN  IF j > Len(s) THEN Fail
                    ELSE IF s[j] = "}" THEN Ok(PyDict(f), j + 1)
                    ELSE IF s[j] = ","
                         THEN ParseObjectRest(s, SkipWS(s, j + 1), f)
                    ELSE Fail

\* json.scanner scan_once at i
ParseValue(s, i) ==
    IF i > Len(s) THEN Fail
    ELSE IF s[i] = "\"" THEN ParseString(s, i)
    ELSE IF s[i] = "{"
         THEN LET j == SkipWS(s, i + 1)
              IN  IF j <= Len(s) /\ s[j] = "}" THEN Ok(PyDict(EmptyDict), j + 1)
                  ELSE ParseObjectRest(s, j, EmptyDict)
    ELSE IF s[i] = "["
         THEN LET j == SkipWS(s, i + 1)
              IN  IF j <= Len(s) /\ s[j] = "]" THEN Ok(PyList(<<>>), j + 1)
                  ELSE ParseArrayRest(s, j, <<>>)
    ELSE IF Lit(s, i, <<"n", "u", "l", "l">>) THEN Ok(None, i + 4)
    ELSE IF Lit(s, i, <<"t", "r", "u", "e">>) THEN Ok(PyBool(TRUE), i + 4)
    ELSE IF Lit(s, i, <<"f", "a", "l", "s", "e">>) THEN Ok(PyBool(FALSE), i + 5)
    ELSE IF s[i] \in Digits \cup {"-"} /\ ParseNumber(s, i).ok
         THEN ParseNumber(s, i)
    ELSE IF Lit(s, i, <<"N", "a", "N">>)
         THEN Ok(PyFloat(SubSeq(s, i, i + 2)), i + 3)
    ELSE IF Lit(s, i, <<"I", "n", "f", "i", "n", "i", "t", "y">>)
         THEN Ok(PyFloat(SubSeq(s, i, i + 7)), i + 8)
    ELSE IF Lit(s, i, <<"-", "I", "n", "f", "i", "n", "i", "t", "y">>)
         THEN Ok(PyFloat(SubSeq(s, i, i + 8)), i + 9)
    ELSE Fail

\* json.loads(s): one value between optional whitespace, nothing after it
JsonLoads(s) ==
    LET r == ParseValue(s, SkipWS(s, 1))
    IN  IF r.ok /\ SkipWS(s, r.pos) = Len(s) + 1 THEN r ELSE Fail

(***************************************************************************)
(* LLMClient._extract_answer: last brace-delimited object, whole-text      *)
(* JSON, boolean keyword, first number, else the text.                     *)
(***************************************************************************)
\* the first "{" or "}" at or after i, or 0
RECURSIVE NextBrace(_, _)
NextBrace(s, i) ==
    IF i > Len(s) THEN 0
    ELSE IF s[i] \in {"{", "}"} THEN i
    ELSE NextBrace(s, i + 1)

\* [^{}]*(?:\{[^{}]*\}[^{}]*)*\} from i on: the index of the closing "}", or 0
RECURSIVE BraceTail(_, _)
BraceTail(s, i) ==
    LET q == NextBrace(s, i)
    IN  IF q = 0 THEN 0
        ELSE IF s[q] = "}" THEN q
        ELSE LET q2 == NextBrace(s, q + 1)
             IN  IF q2 = 0 \/ s[q2] = "{" THEN 0 ELSE BraceTail(s, q2 + 1)

\* re.findall(json_pattern, s) from position p: the matched substrings
RECURSIVE FindAllJson(_, _)
FindAllJson(s, p) ==
    IF p > Len(s) THEN <<>>
    ELSE LET e == IF s[p] = "{" THEN BraceTail(s, p + 1) ELSE 0
         IN  IF e # 0 THEN <<SubSeq(s, p, e)>> \o FindAllJson(s, e + 1)
             ELSE FindAllJson(s, p + 1)

RECURSIVE LStrip(_)
LStrip(s) == IF s # <<>> /\ Head(s) \in WS THEN LStrip(Tail(s)) ELSE s

RECURSIVE RStripWS(_)
RStripWS(s) ==
    IF s # <<>> /\ s[Len(s)] \in WS THEN RStripWS(SubSeq(s, 1, Len(s) - 1))
    ELSE s

\* str.strip()
Strip(s) == RStripWS(LStrip(s))

UpperCase == <<"A", "B", "C", "D", "E", "F", "G", "H", "I", "J", "K", "L", "M",
               "N", "O", "P", "Q", "R", "S", "T", "U", "V", "W", "X", "Y", "Z">>

LowerCase == <<"a", "b", "c", "d", "e", "f", "g", "h", "i", "j", "k", "l", "m",
               "n", "o", "p", "q", "r", "s", "t", "u", "v", "w", "x", "y", "z">>

\* str.lower()
Lower(s) ==
    [i \in 1..Len(s) |->
        IF \E k \in 1..26 : UpperCase[k] = s[i]
        THEN LowerCase[CHOOSE k \in 1..26 : UpperCase[k] = s[i]]
        ELSE s[i]]

\* re.findall(r'-?\d+\.?\d*', s)[0]: the first numeric literal, or <<>>
RECURSIVE FirstNumber(_, _)
FirstNumber(s, p) ==
    IF p > Len(s) THEN <<>>
    ELSE LET d == IF s[p] = "-" THEN p + 1 ELSE p
         IN  IF d <= Len(s) /\ s[d] \in Digits
             THEN LET e1 == DigitsEnd(s, d)
                      e2 == IF e1 <= Len(s) /\ s[e1] = "."
                            THEN DigitsEnd(s, e1 + 1) ELSE e1
                  IN  SubSeq(s, p, e2 - 1)
             ELSE FirstNumber(s, p + 1)

\* the word w occurs in s
Contains(s, w) == \E i \in 1..Len(s) : Lit(s, i, w)

\* steps 2 to 5 with the boolean keyword looked for anywhere in the text
ExtractPlainKeywordSearch(text) ==
    LET parsed  == JsonLoads(text)
        numbers == FirstNumber(text, 1)
    IN  IF parsed.ok THEN parsed.val
        ELSE IF Contains(Lower(text), <<"t", "r", "u", "e">>) THEN PyBool(TRUE)
        ELSE IF Contains(Lower(text), <<"f", "a", "l", "s", "e">>)
             THEN PyBool(FALSE)
        ELSE IF numbers # <<>>
             THEN IF \E i \in 1..Len(numbers) : numbers[i] = "."
                  THEN PyFloat(numbers)
                  ELSE PyIntOf(numbers)
        ELSE PyStr(text)

\* steps 2 to 5, on the text with no usable brace-delimited object
ExtractPlain(text) ==
    LET parsed  == JsonLoads(text)
        numbers == FirstNumber(text, 1)
    IN  IF parsed.ok THEN parsed.val
        ELSE IF Lower(text) = <<"t", "r", "u", "e">> THEN PyBool(TRUE)
        ELSE IF Lower(text) = <<"f", "a", "l", "s", "e">> THEN PyBool(FALSE)
        ELSE IF numbers # <<>>
             THEN IF \E i \in 1..Len(numbers) : numbers[i] = "."
                  THEN PyFloat(numbers)
                  ELSE PyIntOf(numbers)
        ELSE PyStr(text)

ExtractAnswer(answer_text) ==
    LET matches    == FindAllJson(answer_text, 1)
        json_match == IF matches = <<>> THEN Fail
                      ELSE JsonLoads(matches[Len(matches)])
    IN  IF json_match.ok /\ DOMAIN json_match.val.v # {}
        THEN json_match.val
        ELSE ExtractPlain(Strip(answer_text))

(***************************************************************************)
(* json.dumps sizes (QuizSolver._submit_answer, the payload size check).   *)
(***************************************************************************)
RECURSIVE NumDigits(_)
NumDigits(n) == IF n < 10 THEN 1 ELSE 1 + NumDigits(n \div 10)

RECURSIVE JsonSize(_)
RECURSIVE ItemsSize(_)
\* the sizes of the items of a list, with the ", " separators
ItemsSize(items) ==
    IF items = <<>> THEN 0
    ELSE JsonSize(Head(items)) + (IF Len(items) > 1 THEN 2 ELSE 0)
         + ItemsSize(Tail(items))

\* len(json.dumps(value))
JsonSize(a) ==
    CASE a.t = "NoneType" -> 4
      [] a.t = "bool"  -> IF a.v THEN 4 ELSE 5
      [] a.t = "int"   -> IF a.v < 0 THEN 1 + NumDigits(0 - a.v) ELSE NumDigits(a.v)
      [] a.t = "float" -> Len(a.v)
      [] a.t = "str"   -> Len(a.v) + 2
      [] a.t = "list"  -> 2 + ItemsSize(a.v)
      [] a.t = "dict"  ->
            LET keys == DOMAIN a.v
                RECURSIVE Sum(_)
                Sum(ks) == IF ks = {} THEN 0
                           ELSE LET k == CHOOSE x \in ks : TRUE
                                IN  Len(k) + 4 + JsonSize(a.v[k])
                                    + Sum(ks \ {k})
            IN  2 + Sum(keys) + 2 * (IF keys = {} THEN 0 ELSE Cardinality(keys) - 1)

(***************************************************************************)
(* State.                                                                  *)
(*   tasks[t]     the locals of one run of QuizSolver.solve_quiz; its      *)
(*                field elapsed is datetime.now() - start_time, in seconds *)
(*                solve_log and response keep what the run logged last:    *)
(*                how LLMClient.solve_quiz ended, what _submit_answer got  *)
(*                messages is the conversation of LLMClient.solve_quiz     *)
(*                from the model's last message on (the two prompts before *)
(*                the first response): the turns before it are not read by *)
(*                the program again                                        *)
(*   http_closed  the state of the one QuizSolver.http_client              *)
(*   probe        one application of an extractor on its own: the function *)
(*                called, its argument and, once it returned, its result   *)
(***************************************************************************)
VARIABLES tasks, http_closed, probe, browser_manager, service

vars == <<tasks, http_closed, probe, browser_manager, service>>

\* no extractor is being applied on its own
NoProbe == [fn |-> "", done |-> FALSE]

(***************************************************************************)
(* main.py: the POST /quiz handler.  A request is [size, json, schema,     *)
(* secret, email]: the length of its body, what json.loads makes of the    *)
(* body ("invalid", "object", or "other" for a JSON value that is not an   *)
(* object), whether the object has the three string fields, and the secret *)
(* and email it carries.  The service keeps every request handled with the *)
(* response it got, and the runs started with asyncio.create_task.         *)
(***************************************************************************)
SECRET == "secret"

EMAIL == "me@example.com"

\* no request received yet
NoRequests == [handled |-> <<>>, runs |-> <<>>]

Response(status, detail) == [status |-> status, detail |-> detail]

\* lines 95-101
AcceptedResponse == Response(200, "accepted")

\* any secret taken for the configured one
VerifySecretSkipped(req) == TRUE

\* line 77
VerifySecret(req) == req.secret = SECRET

\* lines 46-110: the response, and whether solve_quiz was started
handle_quiz_task(req) ==
    IF req.size > MAX_PAYLOAD_SIZE
    THEN [response |-> Response(400, "Payload too large"), start |-> FALSE]
    ELSE IF req.json = "invalid"
    THEN [response |-> Response(400, "Invalid JSON"), start |-> FALSE]
    ELSE IF req.json # "object"
    THEN [response |-> Response(500, "Internal server error"), start |-> FALSE]
    ELSE IF ~req.schema
    THEN [response |-> Response(400, "Invalid request format"), start |-> FALSE]
    ELSE IF ~VerifySecret(req)
    THEN [response |-> Response(403, "Invalid secret"), start |-> FALSE]
    ELSE [response |-> AcceptedResponse, start |-> TRUE]

\* the handler waits for the run and reports how it ended
RunAwaited(sv, k, outcome) ==
    [sv EXCEPT !.runs[k].state = outcome,
               !.handled[sv.runs[k].request].response =
                   Response(IF outcome = "complete" THEN 200 ELSE 500, outcome)]

\* line 92: the task is created and never awaited, so its end reaches no
\* response
RunDetached(sv, k, outcome) == [sv EXCEPT !.runs[k].state = outcome]

(***************************************************************************)
(* browser.py: the one BrowserManager of the process and the render calls  *)
(* made on it.  get_page_content and get_page_text differ only in the     *)
(* extraction they await (page.content() or page.inner_text("body")), so   *)
(* one call stands for both.  A call is [pc, exit]: where it is suspended  *)
(* and the exit path it took.                                              *)
(***************************************************************************)
NumCallers == 3

Callers == 1..NumCallers

NoCall == [pc |-> "idle", exit |-> ""]

\* BrowserManager.__init__: no driver, no engine, the lock free; launches
\* counts the engines started, pages the pages open
BrowserManager ==
    [playwright |-> FALSE, browser |-> FALSE, lock |-> 0, waiters |-> <<>>,
     launches |-> 0, pages |-> 0, calls |-> [c \in Callers |-> NoCall]]

At(b, c, pc) == [b EXCEPT !.calls[c].pc = pc]

\* leaving "async with self._lock"
Release(b) == [b EXCEPT !.lock = 0]

\* the engine started by whoever holds the lock, whatever another caller did
NeedsStartUnchecked(b) == TRUE

\* line 22: the second test, made under the lock
NeedsStart(b) == ~b.browser

\* initialize() is over: get_page_content goes on to browser.new_page()
Initialized(b, c) == At(b, c, "new_page")

\* lines 21-27: caller c holds the lock
Locked(b, c) ==
    IF NeedsStart(b) THEN At(b, c, "starting")
    ELSE Initialized(Release(b), c)

\* lines 18-21: the first test, then the lock, taken at once when it is free
\* and nobody waits for it
initialize(b, c) ==
    IF b.browser THEN Initialized(b, c)
    ELSE IF b.lock = 0 /\ b.waiters = <<>> THEN Locked([b EXCEPT !.lock = c], c)
    ELSE [b EXCEPT !.waiters = Append(@, c), !.calls[c].pc = "waiting"]

\* the call ends by raising before any page was opened
Raise(b, c) == [b EXCEPT !.calls[c].pc = "raised", !.calls[c].exit = "no_page"]

\* the page left open when the call raises
ExitLeakingOnRaise(b, c, exit) ==
    IF exit \in {"normal", "best_effort"}
    THEN [b EXCEPT !.calls[c].pc = "close", !.calls[c].exit = exit]
    ELSE [b EXCEPT !.calls[c].pc = "raised", !.calls[c].exit = exit]

\* the finally clause: page.close() is awaited on every way out of the try
Exit(b, c, exit) == [b EXCEPT !.calls[c].pc = "close", !.calls[c].exit = exit]

\* the pcs at which a call has a page open
PageHeld == {"goto", "sleep", "content", "best_effort", "close"}

\* a step of the manager
Manager(b) ==
    /\ browser_manager' = b
    /\ UNCHANGED <<tasks, http_closed, probe, service>>

\* a render is called: get_page_content or get_page_text up to its first
\* suspension
RenderCalled(c) ==
    /\ browser_manager.calls[c].pc \in {"idle", "returned", "raised"}
    /\ Manager(initialize([browser_manager EXCEPT !.calls[c] = NoCall], c))

\* the lock is handed to the first waiter
LockAcquired(c) ==
    /\ browser_manager.calls[c].pc = "waiting"
    /\ browser_manager.lock = 0
    /\ Head(browser_manager.waiters) = c
    /\ Manager(Locked([browser_manager EXCEPT !.lock = c,
                                              !.waiters = Tail(@)], c))

\* async_playwright().start() returns: chromium.launch() is begun
PlaywrightStarted(c) ==
    /\ browser_manager.calls[c].pc = "starting"
    /\ Manager(At([browser_manager EXCEPT !.playwright = TRUE], c, "launching"))

\* chromium.launch() returns
BrowserLaunched(c) ==
    /\ browser_manager.calls[c].pc = "launching"
    /\ Manager(Initialized(Release([browser_manager EXCEPT
                                       !.browser = TRUE,
                                       !.launches = @ + 1]), c))

\* start() or launch() raises: the lock is released, the call raises
StartRaises(c) ==
    /\ browser_manager.calls[c].pc \in {"starting", "launching"}
    /\ Manager(Raise(Release(browser_manager), c))

\* browser.new_page() returns: page.goto() is begun
PageOpened(c) ==
    /\ browser_manager.calls[c].pc = "new_page"
    /\ Manager(At([browser_manager EXCEPT !.pages = @ + 1], c, "goto"))

\* browser.new_page() raises
NewPageRaises(c) ==
    /\ browser_manager.calls[c].pc = "new_page"
    /\ Manager(Raise(browser_manager, c))

\* page.goto() returns: the sleep of two seconds
GotoReturns(c) ==
    /\ browser_manager.calls[c].pc = "goto"
    /\ Manager(At(browser_manager, c, "sleep"))

SleepReturns(c) ==
    /\ browser_manager.calls[c].pc = "sleep"
    /\ Manager(At(browser_manager, c, "content"))

\* page.content() / page.inner_text() returns
ContentReturns(c) ==
    /\ browser_manager.calls[c].pc = "content"
    /\ Manager(Exit(browser_manager, c, "normal"))

\* goto or the extraction raises: a timeout goes to the best-effort
\* extraction, anything else is raised again
TryRaises(c, timeout) ==
    /\ browser_manager.calls[c].pc \in {"goto", "content"}
    /\ Manager(IF timeout THEN At(browser_manager, c, "best_effort")
               ELSE Exit(browser_manager, c, "error"))

\* the best-effort extraction after a timeout returns or raises
BestEffortEnds(c, raised) ==
    /\ browser_manager.calls[c].pc = "best_effort"
    /\ Manager(Exit(browser_manager, c,
                    IF raised THEN "best_effort_failed" ELSE "best_effort"))

\* page.close() returns: the call returns or raises
PageClosed(c) ==
    /\ browser_manager.calls[c].pc = "close"
    /\ Manager([browser_manager EXCEPT
                  !.pages = @ - 1,
                  !.calls[c].pc = IF browser_manager.calls[c].exit
                                        \in {"normal", "best_effort"}
                                  THEN "returned" ELSE "raised"])

\* the return value None of _submit_answer / _solve_single_quiz_with_retry
NoResult == [kind |-> "none", correct |-> FALSE, url |-> NoUrl]

\* a response body that is a JSON object with the fields correct and url
Verdict(correct, url) == [kind |-> "dict", correct |-> correct, url |-> url]

\* a response body that is falsy (an empty object or list, 0, null)
EmptyBody == [kind |-> "empty", correct |-> FALSE, url |-> NoUrl]

\* a response body that is truthy and not an object (a list, a string)
NonDictBody == [kind |-> "nondict", correct |-> FALSE, url |-> NoUrl]

\* _submit_answer rejects the payload locally (line 298)
TooLarge == [kind |-> "too_large", correct |-> FALSE, url |-> NoUrl]

\* http_client.post raises at once: the client has been closed
ClientClosed == [kind |-> "client_closed", correct |-> FALSE, url |-> NoUrl]

\* LLMClient._get_function_map
function_map == {"scrape_url", "download_file", "process_pdf", "process_csv",
                 "process_image", "analyze_dataframe", "calculate_statistics",
                 "create_chart"}

\* one turn of the conversation (a content is [kind, text])
Turn(role, id, name, content) ==
    [role |-> role, tool_call_id |-> id, name |-> name, content |-> content]

\* lines 266-269: the system prompt and the user prompt
Prompts ==
    << Turn("system", "", "", [kind |-> "prompt", text |-> "system_prompt"]),
       Turn("user", "", "", [kind |-> "prompt", text |-> "user_prompt"]) >>

\* line 289: the model's message, with the ids of the calls it requests
RECURSIVE CallIds(_)
CallIds(calls) ==
    IF calls = <<>> THEN "" ELSE Head(calls).id \o "," \o CallIds(Tail(calls))

AssistantTurn(message) ==
    Turn("assistant", "", "",
         [kind |-> "message", text |-> CallIds(message.tool_calls)])

\* json.dumps(result) of a handler's return value
ResultPayload(value) == [kind |-> "result", text |-> value]

\* json.dumps({"error": text})
ErrorPayload(text) == [kind |-> "error", text |-> text]

\* lines 308-313, 316-321, 324-329: the tool-result turn of a call
ToolTurn(call, content) == Turn("tool", call.id, call.name, content)

\* the turn put in front of the conversation
PrependTurn(r, turn) == [r EXCEPT !.messages = <<turn>> \o @]

\* messages.append(turn)
AppendTurn(r, turn) == [r EXCEPT !.messages = Append(@, turn)]

\* the part of the conversation the state keeps: from the last message of
\* the model on
RECURSIVE FromLastAssistant(_)
FromLastAssistant(ms) ==
    IF ms = <<>> THEN <<>>
    ELSE LET rest == FromLastAssistant(Tail(ms))
         IN  IF rest # <<>> /\ Head(rest).role = "assistant" THEN rest
             ELSE IF Head(ms).role = "assistant" THEN ms
             ELSE IF rest = Tail(ms) THEN ms ELSE rest

\* nothing passed yet to _solve_with_llm / to _submit_answer
NoSolveArgs == [instructions |-> <<>>, url |-> NoUrl]

NoSubmitArgs == [submit_url |-> NoUrl, email |-> "", secret |-> "", quiz_url |-> NoUrl]

IdleTask ==
    [pc |-> "idle", url |-> NoUrl, email |-> "", secret |-> "",
     base_size |-> 0, elapsed |-> 0,
     current_url |-> NoUrl, quiz_instructions |-> <<>>, submit_url |-> NoUrl,
     attempt |-> 0, iteration |-> 0, tool_calls |-> <<>>, messages |-> <<>>,
     answer |-> None,
     solve_args |-> NoSolveArgs, submit_args |-> NoSubmitArgs,
     result |-> NoResult, stop |-> "",
     solve_log |-> "", response |-> NoResult, submissions |-> 0]

\* the pcs at which a task awaits one of the blocking operations
BlockingPc == {"render", "llm", "tool", "submit"}

\* a clock read that never sees the time advance
ElapsedFrozen(r) == 0

\* (datetime.now() - start_time).total_seconds()
Elapsed(r) == r.elapsed

\* a blocking operation is started (awaited)
StartOp(r, pc) == [r EXCEPT !.pc = pc]

\* solve_quiz with the client closed after the loop, not in a finally block
FinallySkippedOnError(r, reason) ==
    IF reason = "exception" THEN [r EXCEPT !.pc = "done", !.stop = reason]
    ELSE [r EXCEPT !.pc = "closing", !.stop = reason]

\* solve_quiz, finally: await self.http_client.aclose()
Finally(r, reason) == [r EXCEPT !.pc = "closing", !.stop = reason]

\* the exception leaving solve_quiz: no except clause, no finally block
Propagated(r) == [r EXCEPT !.pc = "crashed", !.stop = "exception"]

\* solve_quiz, lines 80-83: the except clause logs, the finally block closes
Caught(r) == Finally(r, "exception")

\* the outer loop stopping at the deadline itself
OuterLoopInclusive(r) ==
    IF r.current_url = NoUrl THEN Finally(r, "no_url")
    ELSE IF Elapsed(r) >= QUIZ_TIMEOUT THEN Finally(r, "timeout")
    ELSE StartOp([r EXCEPT !.quiz_instructions = <<>>, !.submit_url = NoUrl,
                           !.attempt = 0, !.iteration = 0, !.answer = None,
                           !.submissions = 0, !.solve_args = NoSolveArgs,
                           !.submit_args = NoSubmitArgs],
                 "render")

\* solve_quiz, lines 40-52: the top of the outer loop up to the page render
OuterLoop(r) ==
    IF r.current_url = NoUrl THEN Finally(r, "no_url")
    ELSE IF Elapsed(r) > QUIZ_TIMEOUT THEN Finally(r, "timeout")
    ELSE StartOp([r EXCEPT !.quiz_instructions = <<>>, !.submit_url = NoUrl,
                           !.attempt = 0, !.iteration = 0, !.answer = None,
                           !.submissions = 0, !.solve_args = NoSolveArgs,
                           !.submit_args = NoSubmitArgs],
                 "render")

\* solve_quiz, lines 54-78: what the outer loop does with the retry loop's
\* return value res (why: the reason the retry loop logged for a None)
AfterRetry(r, res, why) ==
    LET r1 == [r EXCEPT !.result = res]
    IN  IF res.kind \in {"none", "empty"} THEN Finally(r1, why)
        ELSE IF res.correct
             THEN IF res.url # NoUrl
                  THEN OuterLoop([r1 EXCEPT !.current_url = res.url])
                  ELSE Finally(r1, "complete")
             ELSE IF res.url # NoUrl
                  THEN OuterLoop([r1 EXCEPT !.current_url = res.url])
                  ELSE Finally(r1, "wrong_no_url")

\* the reason of the last verdict added to what the Answer Engine is given
SolveArgsWithReason(r) ==
    [instructions |-> IF r.response.kind = "dict"
                      THEN r.quiz_instructions \o <<W("reason")>>
                      ELSE r.quiz_instructions,
     url |-> r.current_url]

\* line 135: _solve_with_llm(quiz_instructions, url)
SolveArgs(r) == [instructions |-> r.quiz_instructions, url |-> r.current_url]

\* the URL the task was started with sent as the url of every payload
SubmitArgsOriginalUrl(r) ==
    [submit_url |-> r.submit_url, email |-> r.email, secret |-> r.secret,
     quiz_url |-> r.url]

\* lines 144-146: _submit_answer(submit_url, email, secret, url, answer)
SubmitArgs(r) ==
    [submit_url |-> r.submit_url, email |-> r.email, secret |-> r.secret,
     quiz_url |-> r.current_url]

\* Attempt without the deadline check of lines 127-130
AttemptUnchecked(r, k) ==
    IF k >= max_retries THEN AfterRetry(r, NoResult, "retries_exhausted")
    ELSE StartOp([r EXCEPT !.attempt = k, !.iteration = 1, !.tool_calls = <<>>,
                           !.messages = Prompts, !.answer = None,
                           !.solve_args = SolveArgs(r)],
                 "llm")

\* _solve_single_quiz_with_retry, lines 125-135: attempt k of the for loop,
\* up to the first model call of LLMClient.solve_quiz (line 279)
Attempt(r, k) ==
    IF k >= max_retries THEN AfterRetry(r, NoResult, "retries_exhausted")
    ELSE IF Elapsed(r) > QUIZ_TIMEOUT
         THEN AfterRetry(r, NoResult, "timeout_in_retry")
    ELSE StartOp([r EXCEPT !.attempt = k, !.iteration = 1, !.tool_calls = <<>>,
                           !.messages = Prompts, !.answer = None,
                           !.solve_args = SolveArgs(r)],
                 "llm")

\* the retry loop returning only a correct verdict
AcceptedOnlyCorrect(res) == res.correct

\* the retry loop returning every verdict
AcceptedAny(res) == TRUE

\* which verdicts the retry loop returns to the outer loop (lines 152-158)
Accepted(res) == res.correct \/ res.url # NoUrl

\* a wrong verdict without a next URL returned to the outer loop
AfterSubmitStopsOnWrong(r, res) ==
    IF res.kind \in {"none", "empty"} THEN Attempt(r, r.attempt + 1)
    ELSE IF res.kind = "nondict" THEN Caught(r)
    ELSE AfterRetry(r, res, "")

\* _solve_single_quiz_with_retry, lines 148-166, on _submit_answer's result
AfterSubmit(r, res) ==
    IF res.kind \in {"none", "empty"} THEN Attempt(r, r.attempt + 1)
    ELSE IF res.kind = "nondict" THEN Caught(r)
    ELSE IF Accepted(res) THEN AfterRetry(r, res, "")
    ELSE Attempt(r, r.attempt + 1)

\* a payload of exactly the ceiling rejected too
PayloadTooLargeInclusive(r, a) == r.base_size + JsonSize(a) >= MAX_PAYLOAD_SIZE

\* _submit_answer, lines 295-296: the serialized payload (base_size for the
\* email, secret and url fields, then the answer) is over the ceiling
PayloadTooLarge(r, a) == r.base_size + JsonSize(a) > MAX_PAYLOAD_SIZE

\* line 137 without its None check
AnswerAbsentIgnored(a) == FALSE

\* the answer is None: line 137
AnswerAbsent(a) == a.t = "NoneType"

\* _solve_single_quiz_with_retry, lines 137-146 and _submit_answer, lines
\* 286-306, on the value a returned by LLMClient.solve_quiz
AfterSolve(r, a, how, closed) ==
    LET r0 == [r EXCEPT !.answer = a, !.solve_log = how, !.messages = <<>>,
                        !.tool_calls = <<>>]
        r1 == [r0 EXCEPT !.submit_args = SubmitArgs(r)]
    IN  IF AnswerAbsent(a) THEN Attempt(r0, r.attempt + 1)
        ELSE IF PayloadTooLarge(r, a)
             THEN AfterSubmit([r1 EXCEPT !.response = TooLarge], NoResult)
        ELSE IF closed
             THEN AfterSubmit([r1 EXCEPT !.response = ClientClosed,
                                         !.submissions = @ + 1],
                              NoResult)
        ELSE StartOp([r1 EXCEPT !.response = NoResult, !.submissions = @ + 1],
                     "submit")

\* an exception raised inside the loop leaving LLMClient.solve_quiz
EngineErrorPropagated(r, how, closed) == Finally(r, "exception")

\* lines 342-344: an exception raised inside the loop (arguments that are not
\* JSON at line 298, content that is None at line 332) is logged and None
\* returned
EngineError(r, how, closed) == AfterSolve(r, None, how, closed)

\* LLMClient.solve_quiz, lines 275-279 and 339-340: the next round, or None
NextRound(r, closed) ==
    IF r.iteration < max_iterations
    THEN StartOp([r EXCEPT !.iteration = @ + 1, !.tool_calls = <<>>], "llm")
    ELSE AfterSolve(r, None, "max_iterations", closed)

\* every tool name taken as registered
RegisteredAny(name) == TRUE

\* line 302: function_name in self.function_map
Registered(name) == name \in function_map

\* LLMClient.solve_quiz, lines 296-329: the tool calls not yet dispatched.
\* The arguments are decoded first (line 298, outside the inner try); a
\* registered handler called with arguments it does not take raises at the
\* call (lines 305, 314-321); an unknown name gets its error turn.
RECURSIVE Dispatch(_, _, _)
Dispatch(r, calls, closed) ==
    IF calls = <<>> THEN NextRound(r, closed)
    ELSE IF Head(calls).args = "invalid_json"
         THEN EngineError(r, "args_error", closed)
    ELSE IF Registered(Head(calls).name)
         THEN IF Head(calls).args = "bad_kwargs"
              THEN Dispatch(AppendTurn(r, ToolTurn(Head(calls),
                                                   ErrorPayload("TypeError"))),
                            Tail(calls), closed)
              ELSE StartOp([r EXCEPT !.tool_calls = calls], "tool")
    ELSE Dispatch(AppendTurn(r, ToolTurn(Head(calls),
                      ErrorPayload("Unknown function: " \o Head(calls).name))),
                  Tail(calls), closed)

\* a raising handler ending the invocation
AfterToolAborting(r, out, closed) ==
    IF out.raised THEN AfterSolve(r, None, "tool_error", closed)
    ELSE Dispatch(AppendTurn(r, ToolTurn(Head(r.tool_calls),
                                         ResultPayload(out.text))),
                  Tail(r.tool_calls), closed)

\* lines 305-321: the awaited handler returned a value or raised; its
\* tool-result turn is appended and the loop goes to the next call
AfterTool(r, out, closed) ==
    Dispatch(AppendTurn(r, ToolTurn(Head(r.tool_calls),
                                    IF out.raised THEN ErrorPayload(out.text)
                                    ELSE ResultPayload(out.text))),
             Tail(r.tool_calls), closed)

\* a failed model call escaping LLMClient.solve_quiz
ModelFailurePropagated(r, closed) == Finally(r, "exception")

\* lines 342-344: the call to the model raised
ModelFailure(r, closed) == AfterSolve(r, None, "model_error", closed)

\* LLMClient.solve_quiz, lines 288-337, on the model's message
AfterModel(r, message, closed) ==
    LET r0 == AppendTurn(r, AssistantTurn(message))
        r1 == [r0 EXCEPT !.messages = FromLastAssistant(@)]
    IN  IF message.tool_calls # <<>>
        THEN Dispatch(r1, message.tool_calls, closed)
        ELSE IF ~message.has_content
             THEN EngineError(r1, "content_error", closed)
        ELSE AfterSolve(r1, ExtractAnswer(Strip(message.content)), "answer",
                        closed)

\* lines 108-125 without the submit URL check of lines 118-120
AfterRenderNoUrlCheck(r, html) ==
    LET instr == ExtractInstructions(html)
        r1    == [r EXCEPT !.quiz_instructions = instr, !.solve_log = "",
                           !.response = NoResult]
    IN  IF instr = <<>> THEN AfterRetry(r1, NoResult, "no_instructions")
        ELSE Attempt([r1 EXCEPT !.submit_url = ExtractSubmitUrl(instr)], 0)

\* _solve_single_quiz_with_retry, lines 108-125, on the rendered page
AfterRender(r, html) ==
    LET instr == ExtractInstructions(html)
        r1    == [r EXCEPT !.quiz_instructions = instr, !.solve_log = "",
                           !.response = NoResult]
    IN  IF instr = <<>> THEN AfterRetry(r1, NoResult, "no_instructions")
        ELSE IF ExtractSubmitUrl(instr) = NoUrl
             THEN AfterRetry(r1, NoResult, "no_submit_url")
        ELSE Attempt([r1 EXCEPT !.submit_url = ExtractSubmitUrl(instr)], 0)

(***************************************************************************)
(* The environment: pages the renderer returns, messages the model sends,  *)
(* responses of the submit endpoint.                                       *)
(***************************************************************************)
InstrPost == <<W("post"), W("your"), W("answer"), W("to"), U(SubmitUrlA, ".")>>

InstrNoUrl == <<W("what"), W("is"), W("the"), W("answer")>>

AtobCall(quote, space, valid, ws, text) ==
    [quote |-> quote, space |-> space,
     payload |-> [valid |-> valid, ws |-> ws, text |-> text]]

\* a script with one call
Script(atob, quote, space, valid, ws, text) ==
    [atob |-> atob, calls |-> <<AtobCall(quote, space, valid, ws, text)>>]

PageResult(text) ==
    [result_div |-> TRUE, result_text |-> text, scripts |-> <<>>,
     page_text |-> text]

PageEmpty ==
    [result_div |-> FALSE, result_text |-> <<>>, scripts |-> <<>>,
     page_text |-> <<>>]

PageAtob ==
    [result_div |-> TRUE, result_text |-> <<>>,
     scripts |-> <<Script(TRUE, Backtick, FALSE, TRUE, TRUE, InstrPost)>>,
     page_text |-> <<>>]

RenderedPages == {PageResult(InstrPost), PageResult(InstrNoUrl), PageEmpty, PageAtob}

Call(id, name, args) == [id |-> id, name |-> name, args |-> args]

ToolCallLists ==
    { <<Call("c1", "no_such_tool", "ok"), Call("c2", "scrape_url", "ok"),
        Call("c3", "download_file", "bad_kwargs")>>,
      <<Call("c1", "no_such_tool", "ok")>>,
      <<Call("c1", "scrape_url", "ok"), Call("c2", "scrape_url", "invalid_json"),
        Call("c3", "download_file", "ok")>> }

\* what an awaited handler does: it returns a value, or it raises
ToolOutcomes ==
    { [raised |-> FALSE, text |-> "data"], [raised |-> TRUE, text |-> "boom"] }

FinalTexts ==
    { <<"4", "2">>,
      <<"n", "u", "l", "l">>,
      <<"[", "1", "]">>,
      <<"{", "\"", "a", "\"", ":", " ", "1", "}">> }

ModelMessages ==
    {[tool_calls |-> c, has_content |-> FALSE, content |-> <<>>] : c \in ToolCallLists}
    \cup {[tool_calls |-> <<>>, has_content |-> TRUE, content |-> x] : x \in FinalTexts}
    \cup {[tool_calls |-> <<>>, has_content |-> FALSE, content |-> <<>>]}

SubmitResults ==
    {NoResult, EmptyBody, NonDictBody}
    \cup {Verdict(c, u) : c \in BOOLEAN, u \in Urls \cup {NoUrl}}

\* the addresses runs are started for: the configured one, and one long
\* enough to bring the payload near the ceiling (main.py, lines 85-87: a
\* request with another email is served too)
LongEmail == "long@example.com"

Emails == {EMAIL, LongEmail}

\* the size of the payload without its answer (lines 287-295: the email,
\* secret and url fields): small, or two bytes under the ceiling (the answer
\* 42 then fills it exactly)
BaseSize(email) == IF email = LongEmail THEN MAX_PAYLOAD_SIZE - 2 ELSE 64

(***************************************************************************)
(* Actions.                                                                *)
(***************************************************************************)
\* the wall clock advances by d while task t awaits: every running task's
\* elapsed time grows
Advance(t, d) ==
    [u \in Tasks |->
        IF tasks[u].pc \in {"idle", "done"} THEN tasks[u]
        ELSE [tasks[u] EXCEPT !.elapsed = Min(@ + d, MaxElapsed)]]

\* task t runs on to its next await, reaching r; the client is closed from
\* the moment a run enters its finally block
Step(t, d, r) ==
    /\ tasks' = [Advance(t, d) EXCEPT ![t] = r]
    /\ http_closed' = (http_closed \/ r.pc = "closing")
    /\ UNCHANGED <<probe, browser_manager, service>>

\* main.py, line 92: a validated request starts solve_quiz (lines 36-52)
StartTask(t, url, email) ==
    /\ tasks[t].pc \in {"idle", "done"}
    /\ Step(t, 0, OuterLoop([IdleTask EXCEPT !.url = url, !.current_url = url,
                                             !.email = email, !.secret = SECRET,
                                             !.base_size = BaseSize(email)]))

\* browser_manager.get_page_content returns the rendered page
RenderReturns(t, html, d) ==
    /\ tasks[t].pc = "render"
    /\ Step(t, d, AfterRender(Advance(t, d)[t], html))

\* browser_manager.get_page_content raises: solve_quiz, lines 80-83
RenderRaises(t, d) ==
    /\ tasks[t].pc = "render"
    /\ Step(t, d, Caught(Advance(t, d)[t]))

\* client.chat.completions.create returns a message
ModelReturns(t, message, d) ==
    /\ tasks[t].pc = "llm"
    /\ Step(t, d, AfterModel(Advance(t, d)[t], message, http_closed))

\* client.chat.completions.create raises: LLMClient.solve_quiz, lines 342-344
ModelRaises(t, d) ==
    /\ tasks[t].pc = "llm"
    /\ Step(t, d, ModelFailure(Advance(t, d)[t], http_closed))

\* the tool handler returns or raises: lines 305-321, then the next call
ToolReturns(t, out, d) ==
    /\ tasks[t].pc = "tool"
    /\ Step(t, d, AfterTool(Advance(t, d)[t], out, http_closed))

\* http_client.post completes: _submit_answer, lines 308-319 (res is None for
\* a transport error, a status other than 2xx or a body that is not JSON)
SubmitReturns(t, res, d) ==
    /\ tasks[t].pc = "submit"
    /\ Step(t, d, AfterSubmit([Advance(t, d)[t] EXCEPT !.response = res], res))

\* http_client.aclose() completes: solve_quiz returns, its locals are gone
CloseReturns(t, d) ==
    /\ tasks[t].pc = "closing"
    /\ Step(t, d, [IdleTask EXCEPT !.pc = "done", !.stop = tasks[t].stop])

Init ==
    /\ tasks = [t \in Tasks |-> IdleTask]
    /\ http_closed = FALSE
    /\ probe = NoProbe
    /\ browser_manager = BrowserManager
    /\ service = NoRequests

Next ==
    \E t \in Tasks :
        \/ \E url \in Urls \cup {NoUrl}, email \in Emails : StartTask(t, url, email)
        \/ \E html \in RenderedPages, d \in Durations : RenderReturns(t, html, d)
        \/ \E d \in Durations : RenderRaises(t, d)
        \/ \E m \in ModelMessages, d \in Durations : ModelReturns(t, m, d)
        \/ \E d \in Durations : ModelRaises(t, d)
        \/ \E out \in ToolOutcomes, d \in Durations : ToolReturns(t, out, d)
        \/ \E res \in SubmitResults, d \in Durations : SubmitReturns(t, res, d)
        \/ \E d \in Durations : CloseReturns(t, d)

Spec == Init /\ [][Next]_vars

(***************************************************************************)
(* The orchestrator with every awaited operation returning after a         *)
(* positive time.                                                          *)
(***************************************************************************)
\* how long an awaited operation takes when the time advances with each
LiveDurations == {45}

\* the messages of the model in the fair runs: the tool-call rounds, the
\* message without content, and the final texts whose answer is a list or
\* absent (the fairness condition compares the states of a step, and answers
\* of other types are not comparable with these; the value of the answer
\* plays no part in how a run ends)
LiveMessages ==
    {m \in ModelMessages :
        m.has_content
            => ExtractAnswer(Strip(m.content)).t \in {"list", "NoneType"}}

\* the operation task t awaits returns
Returns(t) ==
    \/ \E html \in RenderedPages, d \in LiveDurations : RenderReturns(t, html, d)
    \/ \E d \in LiveDurations : RenderRaises(t, d)
    \/ \E m \in LiveMessages, d \in LiveDurations : ModelReturns(t, m, d)
    \/ \E d \in LiveDurations : ModelRaises(t, d)
    \/ \E out \in ToolOutcomes, d \in LiveDurations : ToolReturns(t, out, d)
    \/ \E res \in SubmitResults, d \in LiveDurations : SubmitReturns(t, res, d)
    \/ \E d \in LiveDurations : CloseReturns(t, d)

\* the runs are started for the configured address, on the first page or
\* with no URL (the size of the payload plays no part in how a run ends, and
\* the two pages differ only by name: the verdicts still name either)
NextLive ==
    \E t \in Tasks :
        \/ \E url \in {"https://q/1", NoUrl} : StartTask(t, url, EMAIL)
        \/ Returns(t)

\* where each task stands: every return of an awaited operation changes it
position ==
    [t \in Tasks |->
        <<tasks[t].pc, tasks[t].elapsed, tasks[t].attempt, tasks[t].iteration,
          Len(tasks[t].tool_calls), tasks[t].submissions>>]

\* every awaited operation returns: the event loop resumes a task whose
\* awaited operation has completed
SpecLive ==
    Init /\ [][NextLive]_vars /\ \A t \in Tasks : WF_position(Returns(t))


(***************************************************************************)
(* The extractors on their own: LLMClient._extract_answer on a response    *)
(* text, on the JSON encoding of an object, and                            *)
(* QuizSolver._extract_submit_url on an instruction text followed by what  *)
(* _solve_single_quiz_with_retry does with the page.                       *)
(***************************************************************************)
\* a response text is made of at most MaxFragments fragments
MaxFragments == 3

\* an instruction text is made of at most MaxTokens tokens
MaxTokens == 4

AnswerFragments ==
    { <<"{", "}">>,
      <<"{", "\"", "a", "\"", ":", " ", "1", "}">>,
      <<"{", "b", "}">>,
      <<"{", "\"", "a", "\"", ":", " ", "{", "\"", "b", "\"", ":", " ", "1", "}", "}">>,
      <<"n", "u", "l", "l">>,
      <<"t", "r", "u", "e">>,
      <<"F", "a", "l", "s", "e">>,
      <<"4", "2">>,
      <<"3", ".", "1", "4">>,
      <<"-", "5">>,
      <<".">>,
      <<" ">>,
      <<"x">>,
      <<"T", "h", "e", " ", "a", "n", "s", "w", "e", "r", " ", "i", "s", " ">>,
      <<"R", "e", "s", "u", "l", "t", ":", " ">>,
      <<"[", "1", "]">>,
      <<"\"", "s", "\"">> }

RECURSIVE Flatten(_)
Flatten(fs) == IF fs = <<>> THEN <<>> ELSE Head(fs) \o Flatten(Tail(fs))

AnswerTexts ==
    { Flatten(fs) : fs \in UNION {[1..n -> AnswerFragments] : n \in 1..MaxFragments} }

InstructionTokens ==
    { W("post"), W("to"), W("submit"), W("answer"), NL,
      U(SubmitUrlA, ""), U(SubmitUrlA, "."), U(PlainUrlB, ""), U(PlainUrlB, ").") }

\* a phrase "post to <url>" or "submit to <url>"
Phrases ==
    { <<W(kw), W("to"), u>> :
        kw \in {"post", "submit"},
        u \in {U(SubmitUrlA, "."), U(PlainUrlB, ""), U(PlainUrlB, ").")} }

\* the texts of at most MaxTokens tokens, and the texts of two phrases
InstructionTexts ==
    UNION {[1..n -> InstructionTokens] : n \in 0..MaxTokens}
    \cup {a \o b : a \in Phrases, b \in Phrases}

\* an object to encode: its items in insertion order, a value being an
\* integer, a string or an object of integers
Item(k, val) == [k |-> k, val |-> val]

OrderedDict(items) == [t |-> "odict", v |-> items]

ObjectValues ==
    << PyInt(1), PyInt(-5), PyStr(<<"x">>), PyStr(<<"{">>), PyStr(<<"}">>),
       OrderedDict(<<>>), OrderedDict(<<Item(<<"c">>, PyInt(1))>>) >>

\* the object with the values i and j of ObjectValues under the keys "a" and
\* "b" (0: the key is not there)
ObjectOf(i, j) ==
    OrderedDict((IF i = 0 THEN <<>> ELSE <<Item(<<"a">>, ObjectValues[i])>>)
                \o (IF j = 0 THEN <<>> ELSE <<Item(<<"b">>, ObjectValues[j])>>))

\* the Python dict of an ordered object
RECURSIVE ToPy(_)
RECURSIVE ToPyItems(_, _)
ToPyItems(items, acc) ==
    IF items = <<>> THEN acc
    ELSE ToPyItems(Tail(items), Put(acc, Head(items).k, ToPy(Head(items).val)))

ToPy(val) == IF val.t = "odict" THEN PyDict(ToPyItems(val.v, EmptyDict)) ELSE val

DigitChar(d) == <<"0", "1", "2", "3", "4", "5", "6", "7", "8", "9">>[d + 1]

\* str(n) for n >= 0
RECURSIVE DigitsOf(_)
DigitsOf(n) ==
    IF n < 10 THEN <<DigitChar(n)>>
    ELSE Append(DigitsOf(n \div 10), DigitChar(n % 10))

\* json.dumps(val), default separators; the strings need no escapes
RECURSIVE JsonDumps(_)
RECURSIVE DumpItems(_)
DumpItems(items) ==
    IF items = <<>> THEN <<>>
    ELSE <<"\"">> \o Head(items).k \o <<"\"", ":", " ">>
         \o JsonDumps(Head(items).val)
         \o (IF Len(items) > 1 THEN <<",", " ">> ELSE <<>>)
         \o DumpItems(Tail(items))

JsonDumps(val) ==
    CASE val.t = "int"   -> IF val.v < 0 THEN <<"-">> \o DigitsOf(0 - val.v)
                            ELSE DigitsOf(val.v)
      [] val.t = "str"   -> <<"\"">> \o val.v \o <<"\"">>
      [] val.t = "odict" -> <<"{">> \o DumpItems(val.v) \o <<"}">>

\* the run that is rendering the page probed
RenderingTask ==
    OuterLoop([IdleTask EXCEPT !.url = "https://q/1",
                               !.current_url = "https://q/1", !.base_size = 64])

\* the scripts of a page: without atob; with a literal in each quote, with
\* and without white space around it or inside it; with a payload that does
\* not decode; with a fragment that has no text; with an argument that is
\* not a literal; with two calls, the first one not decoding
ScriptKinds ==
    { Script(FALSE, "", FALSE, FALSE, FALSE, <<>>),
      Script(TRUE, Backtick, FALSE, TRUE, TRUE, InstrPost),
      Script(TRUE, "double", FALSE, TRUE, FALSE, InstrNoUrl),
      Script(TRUE, "single", TRUE, TRUE, TRUE, InstrPost),
      Script(TRUE, Backtick, TRUE, TRUE, FALSE, InstrPost),
      Script(TRUE, "double", FALSE, FALSE, FALSE, InstrPost),
      Script(TRUE, Backtick, FALSE, TRUE, FALSE, <<>>),
      Script(TRUE, "", FALSE, TRUE, FALSE, InstrPost),
      [atob |-> TRUE,
       calls |-> <<AtobCall(Backtick, FALSE, FALSE, FALSE, InstrPost),
                   AtobCall("double", FALSE, TRUE, FALSE, InstrNoUrl)>>],
      [atob |-> TRUE,
       calls |-> <<AtobCall(Backtick, FALSE, FALSE, FALSE, InstrPost),
                   AtobCall("single", TRUE, TRUE, TRUE, InstrPost)>>],
      [atob |-> TRUE,
       calls |-> <<AtobCall(Backtick, FALSE, FALSE, FALSE, InstrPost),
                   AtobCall("double", FALSE, FALSE, FALSE, InstrNoUrl)>>] }

MaxScripts == 2

OtherText == <<W("footer")>>

\* the pages: with or without the result container, its text, the scripts,
\* the text of the rest of the page
InstructionPages ==
    { [result_div |-> d[1], result_text |-> d[2], scripts |-> scs,
       page_text |-> d[2] \o other] :
        d \in {<<FALSE, <<>> >>, <<TRUE, <<>> >>, <<TRUE, InstrNoUrl>>},
        scs \in UNION {[1..n -> ScriptKinds] : n \in 0..MaxScripts},
        other \in {<<>>, OtherText} }

\* _extract_quiz_instructions(html) returns
CallExtractInstructions ==
    /\ probe.fn = "_extract_quiz_instructions" /\ ~probe.done
    /\ probe' = [probe EXCEPT !.done = TRUE,
                              !.ret = ExtractInstructions(probe.arg)]
    /\ UNCHANGED <<tasks, http_closed, browser_manager, service>>

\* _extract_answer(text) returns
CallExtractAnswer ==
    /\ probe.fn = "_extract_answer" /\ ~probe.done
    /\ probe' = [probe EXCEPT !.done = TRUE, !.ret = ExtractAnswer(probe.arg)]
    /\ UNCHANGED <<tasks, http_closed, browser_manager, service>>

\* _extract_answer(json.dumps(obj)) returns
CallRoundTrip ==
    /\ probe.fn = "round_trip" /\ ~probe.done
    /\ probe' = [probe EXCEPT !.done = TRUE,
                              !.ret = ExtractAnswer(JsonDumps(probe.arg))]
    /\ UNCHANGED <<tasks, http_closed, browser_manager, service>>

\* _extract_submit_url(instructions) returns, and the retry loop goes on
\* with a page whose instructions are that text (lines 108-125)
CallExtractSubmitUrl ==
    /\ probe.fn = "_extract_submit_url" /\ ~probe.done
    /\ probe' = [probe EXCEPT !.done = TRUE,
                              !.ret = ExtractSubmitUrl(probe.arg),
                              !.after = AfterRender(RenderingTask,
                                                    PageResult(probe.arg))]
    /\ UNCHANGED <<tasks, http_closed, browser_manager, service>>

InitExtract ==
    /\ tasks = [t \in Tasks |-> IdleTask]
    /\ http_closed = FALSE
    /\ browser_manager = BrowserManager
    /\ service = NoRequests
    /\ \/ probe \in {[fn |-> "_extract_answer", done |-> FALSE, arg |-> x,
                        ret |-> None] : x \in AnswerTexts}
       \/ \E i, j \in 0..Len(ObjectValues) :
             probe = [fn |-> "round_trip", done |-> FALSE,
                      arg |-> ObjectOf(i, j), ret |-> None]
       \/ probe \in {[fn |-> "_extract_submit_url", done |-> FALSE, arg |-> x,
                        ret |-> NoUrl, after |-> IdleTask] :
                          x \in InstructionTexts}
       \/ probe \in {[fn |-> "_extract_quiz_instructions", done |-> FALSE,
                        arg |-> x, ret |-> <<>>] : x \in InstructionPages}

NextExtract ==
    \/ CallExtractAnswer
    \/ CallRoundTrip
    \/ CallExtractSubmitUrl
    \/ CallExtractInstructions

SpecExtract == InitExtract /\ [][NextExtract]_vars

\* the render calls on the browser manager, alone
InitBrowser ==
    /\ tasks = [t \in Tasks |-> IdleTask]
    /\ http_closed = FALSE
    /\ probe = NoProbe
    /\ service = NoRequests
    /\ browser_manager = BrowserManager

NextBrowser ==
    \E c \in Callers :
        \/ RenderCalled(c)
        \/ LockAcquired(c)
        \/ PlaywrightStarted(c)
        \/ BrowserLaunched(c)
        \/ StartRaises(c)
        \/ PageOpened(c)
        \/ NewPageRaises(c)
        \/ GotoReturns(c)
        \/ SleepReturns(c)
        \/ ContentReturns(c)
        \/ \E timeout \in BOOLEAN : TryRaises(c, timeout)
        \/ \E raised \in BOOLEAN : BestEffortEnds(c, raised)
        \/ PageClosed(c)

SpecBrowser == InitBrowser /\ [][NextBrowser]_vars

MaxRequests == 2

Requests ==
    [size : {64, MAX_PAYLOAD_SIZE, MAX_PAYLOAD_SIZE + 1},
     json : {"invalid", "object", "other"},
     schema : BOOLEAN,
     secret : {SECRET, "wrong"},
     email : {EMAIL, "other@example.com"}]

\* how a run of solve_quiz ends (the stop reasons of the chain)
RunOutcomes == {"complete", "timeout", "wrong_no_url", "exception"}

\* a POST /quiz is handled: validation, create_task, response
HandleRequest(req) ==
    /\ Len(service.handled) < MaxRequests
    /\ LET h == handle_quiz_task(req)
           i == Len(service.handled) + 1
       IN  service' =
             [handled |-> Append(service.handled,
                                 [request |-> req, response |-> h.response]),
              runs |-> IF h.start
                       THEN Append(service.runs,
                                   [request |-> i, state |-> "running"])
                       ELSE service.runs]
    /\ UNCHANGED <<tasks, http_closed, probe, browser_manager>>

\* the run k of solve_quiz ends
RunEnds(k, outcome) ==
    /\ k \in 1..Len(service.runs)
    /\ service.runs[k].state = "running"
    /\ service' = RunDetached(service, k, outcome)
    /\ UNCHANGED <<tasks, http_closed, probe, browser_manager>>

InitService ==
    /\ tasks = [t \in Tasks |-> IdleTask]
    /\ http_closed = FALSE
    /\ probe = NoProbe
    /\ browser_manager = BrowserManager
    /\ service = NoRequests

NextService ==
    \/ \E req \in Requests : HandleRequest(req)
    \/ \E k \in 1..MaxRequests, outcome \in RunOutcomes : RunEnds(k, outcome)

\* the request handler and the runs it starts, alone
SpecService == InitService /\ [][NextService]_vars

(***************************************************************************)
(* Properties.                                                             *)
(***************************************************************************)
\* task t ran in this step (the other tasks only see the clock advance)
Acted(t) == [tasks[t] EXCEPT !.elapsed = 0] # [tasks'[t] EXCEPT !.elapsed = 0]

Running(t) == tasks[t].pc \in BlockingPc

\* C1: no submission of any run is attempted on a client that another run
\* has already released.
C1_NoSubmissionOnReleasedClient ==
    \A t \in Tasks : tasks[t].response.kind # "client_closed"

\* C2: once the elapsed time exceeds the deadline no further blocking
\* operation (render, model call, tool call, submission) is started.
C2_NoOperationStartedPastDeadline ==
    [][\A t \in Tasks :
          (Acted(t) /\ tasks'[t].pc \in BlockingPc)
              => tasks'[t].elapsed <= QUIZ_TIMEOUT]_vars

C4_AtMostThreeAttempts ==
    \A t \in Tasks :
        /\ tasks[t].attempt < 3
        /\ tasks[t].submissions <= 3
        /\ tasks[t].submissions <= tasks[t].attempt + 1
        /\ (tasks[t].pc = "closing" /\ tasks[t].stop = "retries_exhausted")
              => tasks[t].attempt = 2

C4_Witness ==
    \E t \in Tasks :
        /\ tasks[t].pc = "closing"
        /\ tasks[t].stop = "retries_exhausted"
        /\ tasks[t].submissions = 3

\* C5: a verdict that is not correct and carries a next URL ends the retry
\* loop at once: current_url becomes that URL and the outer loop goes on
\* (to the render of that page, or to its deadline check stopping the run).
C5_WrongWithNextUrlAdvances ==
    [][\A t \in Tasks :
          (/\ Acted(t)
           /\ tasks[t].pc = "submit"
           /\ tasks'[t].response.kind = "dict"
           /\ ~tasks'[t].response.correct
           /\ tasks'[t].response.url # NoUrl)
          => /\ tasks'[t].result = tasks'[t].response
             /\ tasks'[t].current_url = tasks'[t].response.url
             /\ \/ tasks'[t].pc = "render" /\ tasks'[t].attempt = 0
                \/ /\ tasks'[t].pc = "closing"
                   /\ tasks'[t].stop = "timeout"
                   /\ tasks'[t].elapsed > QUIZ_TIMEOUT]_vars

C5_Witness ==
    \E t \in Tasks :
        /\ tasks[t].pc = "render"
        /\ tasks[t].response = Verdict(FALSE, "https://q/2")
        /\ tasks[t].url = "https://q/1"
        /\ tasks[t].current_url = "https://q/2"

\* C6: the outer loop only ever gets an accepted verdict that is correct or
\* has a next URL: with a next URL current_url is that URL and the chain is
\* not complete, without one the verdict is correct and the chain is
\* complete; the "wrong and no next URL" stop is never taken.
C6_ContinuationFollowsVerdict ==
    \A t \in Tasks :
        /\ tasks[t].stop # "wrong_no_url"
        /\ (tasks[t].stop = "complete" /\ tasks[t].pc = "closing")
              => tasks[t].result.kind = "dict"
        /\ tasks[t].result.kind # "none"
              => /\ tasks[t].result.kind = "dict"
                 /\ IF tasks[t].result.url # NoUrl
                    THEN /\ tasks[t].current_url = tasks[t].result.url
                         /\ tasks[t].stop # "complete"
                    ELSE /\ tasks[t].result.correct
                         /\ tasks[t].pc = "closing"
                         /\ tasks[t].stop = "complete"

C6_Witness ==
    \E t \in Tasks :
        /\ tasks[t].pc = "closing"
        /\ tasks[t].stop = "complete"
        /\ tasks[t].result = Verdict(TRUE, NoUrl)
        /\ tasks[t].current_url # tasks[t].url

C8_ClientReleasedOnEveryStop ==
    /\ [](\A t \in Tasks :
            /\ tasks[t].stop # "" <=> tasks[t].pc \in {"closing", "done"}
            /\ tasks[t].pc \in {"closing", "done"} => http_closed)
    /\ [][\A t \in Tasks :
            tasks[t].pc = "closing" => tasks'[t].pc \in {"closing", "done"}]_vars

C8_Witness ==
    \E t \in Tasks : tasks[t].pc = "done" /\ tasks[t].stop = "exception"

\* C9: the Answer Engine and the submission only ever run for a page with
\* instructions and a submit URL; a page without stops the run with no
\* model call and no submission made for it.
C9_PageFatalStopsChain ==
    \A t \in Tasks :
        /\ tasks[t].pc \in {"llm", "tool", "submit"}
              => /\ tasks[t].quiz_instructions # <<>>
                 /\ tasks[t].submit_url # NoUrl
        /\ (tasks[t].pc = "closing"
              /\ tasks[t].stop \in {"no_instructions", "no_submit_url"})
              => /\ tasks[t].iteration = 0
                 /\ tasks[t].submissions = 0
                 /\ tasks[t].solve_log = ""
        /\ (tasks[t].pc = "closing" /\ tasks[t].stop = "no_instructions")
              => tasks[t].quiz_instructions = <<>>
        /\ (tasks[t].pc = "closing" /\ tasks[t].stop = "no_submit_url")
              => ExtractSubmitUrl(tasks[t].quiz_instructions) = NoUrl

C9_Witness ==
    \E t \in Tasks :
        /\ tasks[t].pc = "closing"
        /\ tasks[t].stop = "no_submit_url"
        /\ tasks[t].quiz_instructions = InstrNoUrl

\* C10: an Answer Engine invocation calls the model at most 10 times; when
\* the 10th round ends with its tool calls done the invocation returns None:
\* nothing is submitted and the orchestrator goes to its next attempt (or
\* stops because attempts or time ran out), never by an exception.
C10_RoundCapReturnsAbsent ==
    /\ [](\A t \in Tasks : tasks[t].iteration <= 10)
    /\ [][\A t \in Tasks :
            (/\ Acted(t)
             /\ tasks[t].pc \in {"llm", "tool"}
             /\ tasks[t].iteration = 10
             /\ tasks'[t].pc \notin {"tool", "submit"}
             /\ tasks'[t].solve_log
                    \notin {"model_error", "args_error", "content_error",
                             "answer"})
            => /\ tasks'[t].solve_log = "max_iterations"
               /\ AnswerAbsent(tasks'[t].answer)
               /\ tasks'[t].submissions = tasks[t].submissions
               /\ \/ /\ tasks'[t].pc = "llm"
                     /\ tasks'[t].attempt = tasks[t].attempt + 1
                     /\ tasks'[t].iteration = 1
                  \/ /\ tasks'[t].pc = "closing"
                     /\ tasks'[t].stop \in {"retries_exhausted",
                                            "timeout_in_retry"}]_vars

C10_Witness ==
    \E t \in Tasks :
        /\ tasks[t].pc = "llm"
        /\ tasks[t].attempt = 1
        /\ tasks[t].iteration = 1
        /\ tasks[t].solve_log = "max_iterations"

\* the ids of the tool-result turns of a conversation, in order
RECURSIVE ToolTurnIds(_)
ToolTurnIds(ms) ==
    IF ms = <<>> THEN ""
    ELSE (IF Head(ms).role = "tool" THEN Head(ms).tool_call_id \o "," ELSE "")
         \o ToolTurnIds(Tail(ms))

\* C11: when an awaited tool handler finishes, by returning or by raising,
\* the round goes on: one tool-result turn tagged with the call's id (the
\* result, or an error payload) is appended to the conversation, the calls
\* after it are dispatched too, and the next model round is started (unless
\* this was the last round allowed, or a later call's arguments do not
\* decode).
C11_RaisingHandlerKeepsRound ==
    [][\A t \in Tasks :
          (Acted(t) /\ tasks[t].pc = "tool")
          => LET call == Head(tasks[t].tool_calls)
                 m    == tasks[t].messages
                 m2   == tasks'[t].messages
             IN  \/ /\ tasks'[t].pc \in {"tool", "llm"}
                    /\ tasks'[t].attempt = tasks[t].attempt
                    /\ tasks'[t].iteration
                          = tasks[t].iteration
                            + (IF tasks'[t].pc = "llm" THEN 1 ELSE 0)
                    /\ Len(m2) > Len(m)
                    /\ SubSeq(m2, 1, Len(m)) = m
                    /\ \E out \in ToolOutcomes :
                          m2[Len(m) + 1]
                            = ToolTurn(call, IF out.raised
                                             THEN ErrorPayload(out.text)
                                             ELSE ResultPayload(out.text))
                    /\ ToolTurnIds(m2) \o CallIds(tasks'[t].tool_calls)
                          = m2[1].content.text
                 \/ /\ tasks[t].iteration = max_iterations
                    /\ tasks'[t].solve_log = "max_iterations"
                 \/ /\ \E i \in 2..Len(tasks[t].tool_calls) :
                          tasks[t].tool_calls[i].args = "invalid_json"
                    /\ tasks'[t].solve_log = "args_error"]_vars

\* the handler of call c2 raised: its error turn is followed by the turn of
\* call c3, and the next round has been started
C11_Witness ==
    \E t \in Tasks :
        /\ tasks[t].pc = "llm"
        /\ tasks[t].iteration = 2
        /\ Len(tasks[t].messages) = 4
        /\ tasks[t].messages[3]
              = ToolTurn(Call("c2", "scrape_url", "ok"), ErrorPayload("boom"))
        /\ tasks[t].messages[4].tool_call_id = "c3"

C13_ModelFailureIsFailedAttempt ==
    [][\A t \in Tasks :
          (Acted(t) /\ tasks[t].pc = "llm")
          => /\ tasks'[t].stop # "exception"
             /\ (/\ tasks'[t].solve_log = "model_error"
                 /\ tasks'[t].pc # "tool"
                 /\ ~(tasks'[t].pc = "llm"
                        /\ tasks'[t].attempt = tasks[t].attempt))
                => /\ AnswerAbsent(tasks'[t].answer)
                   /\ tasks'[t].submissions = tasks[t].submissions
                   /\ \/ /\ tasks'[t].pc = "llm"
                         /\ tasks'[t].attempt = tasks[t].attempt + 1
                         /\ tasks'[t].iteration = 1
                      \/ /\ tasks'[t].pc = "closing"
                         /\ tasks'[t].stop \in {"retries_exhausted",
                                                "timeout_in_retry"}]_vars

\* the model call of a later round of the third attempt failed
C13_Witness ==
    \E t \in Tasks :
        /\ tasks[t].pc = "closing"
        /\ tasks[t].stop = "retries_exhausted"
        /\ tasks[t].solve_log = "model_error"
        /\ tasks[t].iteration >= 2

\* _extract_answer has returned / _extract_submit_url has returned
AnswerCall == probe.fn = "_extract_answer" /\ probe.done

UrlCall == probe.fn = "_extract_submit_url" /\ probe.done

\* two Python values are equal (==)
RECURSIVE SameValue(_, _)
SameValue(a, b) ==
    /\ a.t = b.t
    /\ CASE a.t = "dict" -> /\ DOMAIN a.v = DOMAIN b.v
                             /\ \A k \in DOMAIN a.v : SameValue(a.v[k], b.v[k])
         [] a.t = "list" -> /\ Len(a.v) = Len(b.v)
                             /\ \A i \in 1..Len(a.v) : SameValue(a.v[i], b.v[i])
         [] OTHER -> a.v = b.v

TextNull == <<"n", "u", "l", "l">>

TextTheAnswerIsTrue == <<"T", "h", "e", " ", "a", "n", "s", "w", "e", "r", " ", "i", "s", " ", "t", "r", "u", "e">>

TextResult42Dot == <<"R", "e", "s", "u", "l", "t", ":", " ", "4", "2", ".">>

\* C14: _extract_answer returns a value other than None for every
\* non-empty text.
C14_ExtractAnswerNeverAbsent ==
    (AnswerCall /\ probe.arg # <<>>) => ~AnswerAbsent(probe.ret)

\* C15 as stated: a text without braces and digits that contains the word
\* true (and not the word false) gives the boolean True.
C15_SentenceWithKeywordIsBoolean ==
    (/\ AnswerCall
     /\ NextBrace(probe.arg, 1) = 0
     /\ \A i \in 1..Len(probe.arg) : probe.arg[i] \notin Digits
     /\ Contains(Lower(probe.arg), <<"t", "r", "u", "e">>)
     /\ ~Contains(Lower(probe.arg), <<"f", "a", "l", "s", "e">>))
    => (probe.ret.t = "bool" /\ probe.ret.v)

\* C15 as amended: the result is a boolean exactly when the stripped text,
\* in lower case, is "true" or "false", and it is the boolean named; the
\* sentence "The answer is true" is returned as the string it is.
C15_BooleanOnlyForExactKeyword ==
    AnswerCall
    => LET kw == Lower(Strip(probe.arg))
       IN  /\ probe.ret.t = "bool"
                 <=> kw \in {<<"t", "r", "u", "e">>, <<"f", "a", "l", "s", "e">>}
           /\ probe.ret.t = "bool" => (probe.ret.v <=> kw = <<"t", "r", "u", "e">>)
           /\ probe.arg = TextTheAnswerIsTrue
                 => (probe.ret.t = "str" /\ probe.ret.v = TextTheAnswerIsTrue)

C15_Witness ==
    /\ AnswerCall
    /\ probe.arg = TextTheAnswerIsTrue
    /\ probe.ret.t = "str"

\* the first match of -?\d+(\.\d+)? in s from p on: a decimal point belongs
\* to the literal only when digits follow it
RECURSIVE StrictLiteral(_, _)
StrictLiteral(s, p) ==
    IF p > Len(s) THEN <<>>
    ELSE LET d == IF s[p] = "-" THEN p + 1 ELSE p
         IN  IF d <= Len(s) /\ s[d] \in Digits
             THEN LET e1 == DigitsEnd(s, d)
                      e2 == IF e1 + 1 <= Len(s) /\ s[e1] = "."
                               /\ s[e1 + 1] \in Digits
                            THEN DigitsEnd(s, e1 + 1) ELSE e1
                  IN  SubSeq(s, p, e2 - 1)
             ELSE StrictLiteral(s, p + 1)

\* C16: a text that reaches the numeric step (no braces, not JSON, not a
\* boolean keyword) and holds a numeric literal gives its first literal, as
\* a float if the literal has a decimal point followed by digits and as an
\* integer otherwise.
C16_FirstLiteralIntUnlessFraction ==
    LET text == Strip(probe.arg)
        lit  == StrictLiteral(text, 1)
    IN  (/\ AnswerCall
         /\ NextBrace(probe.arg, 1) = 0
         /\ ~JsonLoads(text).ok
         /\ Lower(text) \notin {<<"t", "r", "u", "e">>, <<"f", "a", "l", "s", "e">>}
         /\ lit # <<>>)
        => IF \E i \in 1..Len(lit) : lit[i] = "."
           THEN probe.ret.t = "float" /\ probe.ret.v = lit
           ELSE probe.ret.t = "int" /\ probe.ret.v = PyIntOf(lit).v

\* C17: when some brace-delimited substring of the text parses as a JSON
\* object, the result is the last such object.
C17_LastParsingObjectWins ==
    AnswerCall
    => LET ms == FindAllJson(probe.arg, 1)
           ok == {i \in 1..Len(ms) : JsonLoads(ms[i]).ok}
       IN  ok # {}
             => SameValue(probe.ret,
                          JsonLoads(ms[CHOOSE i \in ok : \A j \in ok : j <= i]).val)

\* C18: _extract_answer applied to the JSON encoding of an object returns
\* an object equal to it.
C18_RoundTrip ==
    (probe.fn = "round_trip" /\ probe.done)
        => SameValue(probe.ret, ToPy(probe.arg))

\* the URL tokens of the phrases "post ... to <url>" of s: the word post, the
\* word to after it on the same line, the URL after white space
PostPhraseUrls(s) ==
    {n \in 1..Len(s) :
        /\ s[n].k = "url"
        /\ \E i \in 1..Len(s), j \in 1..Len(s) :
              /\ i < j /\ j < n
              /\ HasPost(s[i])
              /\ s[j] = W("to")
              /\ \A x \in i..j : s[x].k # "nl"
              /\ \A x \in (j + 1)..(n - 1) : s[x].k = "nl"}

C20_NoUrlGivesAbsentAndStops ==
    (UrlCall /\ \A i \in 1..Len(probe.arg) : probe.arg[i].k # "url")
        => /\ probe.ret = NoUrl
           /\ probe.after.pc = "closing"
           /\ probe.after.stop
                 = (IF probe.arg = <<>> THEN "no_instructions" ELSE "no_submit_url")
           /\ probe.after.iteration = 0
           /\ probe.after.submissions = 0
           /\ probe.after.messages = <<>>

C20_Witness ==
    /\ UrlCall
    /\ probe.arg = <<W("post"), W("to"), W("submit")>>
    /\ probe.ret = NoUrl
    /\ probe.after.stop = "no_submit_url"

InstrCall == probe.fn = "_extract_quiz_instructions" /\ probe.done

\* the result container of the page is missing or has no text
NoResultText(html) == ~html.result_div \/ html.result_text = <<>>

\* the scripts of the page with an atob call over a quoted literal (in
\* backticks, or in double or single quotes with or without white space
\* around them) whose payload is the base64 of an HTML fragment
EncodedScripts(html) ==
    {i \in 1..Len(html.scripts) :
        LET sc == html.scripts[i]
            c  == sc.calls[1]
        IN  /\ sc.atob
            /\ c.payload.valid
            /\ \/ c.quote = Backtick /\ ~c.space
               \/ c.quote \in Quotes}

\* every script of the page has a single atob call
SingleCalls(html) == \A i \in 1..Len(html.scripts) : Len(html.scripts[i].calls) = 1

C23_EmptyOnlyIfNoStepYieldsText ==
    InstrCall
    => /\ probe.ret = <<>> => probe.arg.page_text = <<>>
       /\ (probe.arg.result_div /\ probe.arg.result_text = <<>>
              /\ FirstDecodable(probe.arg.scripts, 1) = 0)
            => probe.ret = probe.arg.page_text

\* the calls that are starting the engine (driver start or browser launch)
Starting ==
    {c \in Callers : browser_manager.calls[c].pc \in {"starting", "launching"}}

\* C24: whatever the interleaving of the render calls, at most one engine
\* start is under way, it is under way only while there is no engine and
\* its caller holds the lock, at most one engine is ever started, and a call
\* past initialize() sees the engine.
C24_EngineStartedOnce ==
    /\ Cardinality(Starting) <= 1
    /\ \A c \in Starting : ~browser_manager.browser /\ browser_manager.lock = c
    /\ browser_manager.launches + Cardinality(Starting) <= 1
    /\ browser_manager.browser <=> browser_manager.launches = 1
    /\ \A c \in Callers :
          browser_manager.calls[c].pc \in PageHeld \cup {"new_page"}
              => browser_manager.browser

\* three first calls at once: the first started the engine, the second got
\* the lock after it and started nothing, the third still waits
C24_Witness ==
    /\ browser_manager.launches = 1
    /\ browser_manager.calls[1].pc = "new_page"
    /\ browser_manager.calls[2].pc = "new_page"
    /\ browser_manager.calls[3].pc = "waiting"
    /\ browser_manager.waiters = <<3>>
    /\ browser_manager.lock = 0

\* C25: the pages open are those of the calls between new_page() and the
\* end of page.close(): a call that has returned or raised, on any exit
\* path, has no page open, and with no render in flight no page is open.
C25_PagesClosedOnEveryExit ==
    browser_manager.pages =
        Cardinality({c \in Callers : browser_manager.calls[c].pc \in PageHeld})

\* the four exit paths taken, all pages closed
C25_Witness ==
    /\ browser_manager.pages = 0
    /\ browser_manager.calls[1].pc = "raised"
    /\ browser_manager.calls[1].exit = "best_effort_failed"
    /\ browser_manager.calls[2].pc = "returned"
    /\ browser_manager.calls[2].exit = "best_effort"
    /\ browser_manager.calls[3].pc = "raised"
    /\ browser_manager.calls[3].exit = "error"

\* the runs started for the i-th request handled
RunsOf(i) == {k \in 1..Len(service.runs) : service.runs[k].request = i}

\* the request passed the size check, the JSON parsing, the schema
\* validation and the secret check
PassedAllChecks(req) ==
    /\ req.size <= MAX_PAYLOAD_SIZE
    /\ req.json = "object"
    /\ req.schema
    /\ req.secret = SECRET

\* C26: a request with a wrong secret is rejected and starts no run; a run
\* is started only for a request that passed the four checks, and such a
\* request starts exactly one run, whatever its email.
C26_RunOnlyAfterAllChecks ==
    \A i \in 1..Len(service.handled) :
        LET e == service.handled[i]
        IN  /\ e.request.secret # SECRET
                => RunsOf(i) = {} /\ e.response.status # 200
            /\ RunsOf(i) # {} => PassedAllChecks(e.request)
            /\ PassedAllChecks(e.request) => Cardinality(RunsOf(i)) = 1

\* a well-formed request with a wrong secret got 403 and no run; a valid one
\* with another email started one run
C26_Witness ==
    /\ Len(service.handled) = 2
    /\ service.handled[1].request =
          [size |-> 64, json |-> "object", schema |-> TRUE,
           secret |-> "wrong", email |-> EMAIL]
    /\ service.handled[1].response.status = 403
    /\ service.handled[2].request =
          [size |-> MAX_PAYLOAD_SIZE, json |-> "object", schema |-> TRUE,
           secret |-> SECRET, email |-> "other@example.com"]
    /\ service.runs = <<[request |-> 2, state |-> "running"]>>

\* C27: the response depends on the request alone: equal requests get equal
\* responses, every accepted request gets the same acceptance whether its
\* run is still going or has ended, however it ended, and every other
\* response is a validation failure.
C27_ResponseFromValidationOnly ==
    \A i, j \in 1..Len(service.handled) :
        LET e == service.handled[i]
            f == service.handled[j]
        IN  /\ e.request = f.request => e.response = f.response
            /\ PassedAllChecks(e.request) <=> e.response = AcceptedResponse
            /\ ~PassedAllChecks(e.request) => e.response.status \in {400, 403, 500}

\* two accepted requests: one run completed, the other ended by an
\* exception; both got the same response
C27_Witness ==
    /\ Len(service.runs) = 2
    /\ service.runs[1].state = "complete"
    /\ service.runs[2].state = "exception"
    /\ service.handled[1].response = AcceptedResponse
    /\ service.handled[2].response = AcceptedResponse

AttemptFailed(t) ==
    /\ Acted(t)
    /\ \/ /\ tasks[t].pc \in {"llm", "tool"}
          /\ ~(tasks'[t].pc \in {"llm", "tool"}
                 /\ tasks'[t].attempt = tasks[t].attempt)
          /\ tasks'[t].pc # "submit"
       \/ /\ tasks[t].pc = "submit"
          /\ \/ tasks'[t].response.kind \in {"none", "empty"}
             \/ /\ tasks'[t].response.kind = "dict"
                /\ ~tasks'[t].response.correct
                /\ tasks'[t].response.url = NoUrl

\* task t goes to its next attempt
NextAttempt(t) ==
    /\ tasks'[t].pc = "llm"
    /\ tasks'[t].attempt = tasks[t].attempt + 1
    /\ tasks'[t].iteration = 1

\* C29 as stated: a failed attempt is followed by the next attempt, and the
\* chain stops only when the failed attempt was the third.
C29_StopsOnlyAfterThirdAttempt ==
    [][\A t \in Tasks :
          AttemptFailed(t)
          => IF tasks[t].attempt < 2 THEN NextAttempt(t)
             ELSE tasks'[t].pc = "closing"
                    /\ tasks'[t].stop = "retries_exhausted"]_vars

\* C29 as amended: a failed attempt consumes one attempt and raises nothing;
\* it is followed by the next attempt unless it was the third (the retries
\* are exhausted) or the deadline check before the next attempt finds the
\* deadline exceeded.
C29_FailureConsumesOneAttempt ==
    [][\A t \in Tasks :
          AttemptFailed(t)
          => IF tasks[t].attempt >= 2
             THEN tasks'[t].pc = "closing"
                    /\ tasks'[t].stop = "retries_exhausted"
             ELSE IF tasks'[t].elapsed > QUIZ_TIMEOUT
             THEN tasks'[t].pc = "closing"
                    /\ tasks'[t].stop = "timeout_in_retry"
             ELSE NextAttempt(t)]_vars

\* the first attempt got a wrong verdict without a next URL after the
\* deadline: the chain has stopped before a second attempt
C29_Witness ==
    \E t \in Tasks :
        /\ tasks[t].pc = "closing"
        /\ tasks[t].stop = "timeout_in_retry"
        /\ tasks[t].attempt = 0
        /\ tasks[t].response = Verdict(FALSE, NoUrl)

\* C30: within a page visit the instructions, the submit URL and the page
\* URL extracted before the first attempt never change, no step of an
\* attempt starts a render, every attempt gives the Answer Engine those
\* instructions and that URL in a fresh conversation, and every submission
\* goes to that submit URL.
C30_RetriesAreBlind ==
    /\ [](\A t \in Tasks :
            /\ tasks[t].pc \in {"llm", "tool", "submit"}
                  => /\ tasks[t].solve_args.instructions = tasks[t].quiz_instructions
                     /\ tasks[t].solve_args.url = tasks[t].current_url
            /\ tasks[t].pc = "submit"
                  => /\ tasks[t].submit_args.submit_url = tasks[t].submit_url
                     /\ tasks[t].submit_args.quiz_url = tasks[t].current_url)
    /\ [][\A t \in Tasks :
            (Acted(t) /\ tasks[t].pc \in {"llm", "tool", "submit"})
            => /\ tasks'[t].pc \in {"llm", "tool", "submit"}
                    => /\ tasks'[t].quiz_instructions = tasks[t].quiz_instructions
                       /\ tasks'[t].submit_url = tasks[t].submit_url
                       /\ tasks'[t].current_url = tasks[t].current_url
                       /\ tasks'[t].solve_args = tasks[t].solve_args
               /\ (tasks'[t].pc = "llm" /\ tasks'[t].attempt # tasks[t].attempt)
                    => tasks'[t].messages = Prompts
               /\ tasks'[t].pc = "render"
                    => /\ tasks[t].pc = "submit"
                       /\ tasks'[t].response.kind = "dict"
                       /\ tasks'[t].response.url = tasks'[t].current_url]_vars

\* the third attempt, after two wrong verdicts without a next URL
C30_Witness ==
    \E t \in Tasks :
        /\ tasks[t].pc = "submit"
        /\ tasks[t].attempt = 2
        /\ tasks[t].submissions = 3
        /\ tasks[t].response = NoResult
        /\ tasks[t].result = NoResult
        /\ tasks[t].solve_args = [instructions |-> InstrPost, url |-> "https://q/1"]
        /\ tasks[t].submit_args.submit_url = SubmitUrlA
        /\ tasks[t].submit_args.quiz_url = "https://q/1"

\* C31: a payload over the ceiling is never sent: no submission is in
\* flight with one, the rejection sends no request and counts as a failed
\* attempt, after which the retry loop goes on (or stops because the
\* attempts or the time ran out); a payload of exactly the ceiling is sent.
C31_OversizedPayloadRejectedLocally ==
    /\ [](\A t \in Tasks :
            /\ tasks[t].pc = "submit"
                  => tasks[t].base_size + JsonSize(tasks[t].answer)
                        <= MAX_PAYLOAD_SIZE
            /\ (tasks[t].response.kind = "too_large"
                   /\ tasks[t].pc = "closing"
                   /\ ~AnswerAbsent(tasks[t].answer))
                  => tasks[t].base_size + JsonSize(tasks[t].answer)
                        > MAX_PAYLOAD_SIZE)
    /\ [][\A t \in Tasks :
            (/\ Acted(t)
             /\ tasks[t].pc \in {"llm", "tool"}
             /\ tasks'[t].response.kind = "too_large"
             /\ ~(tasks'[t].pc \in {"llm", "tool"}
                    /\ tasks'[t].attempt = tasks[t].attempt))
            => /\ tasks'[t].submissions = tasks[t].submissions
               /\ tasks'[t].stop # "exception"
               /\ \/ NextAttempt(t)
                  \/ /\ tasks'[t].pc = "closing"
                     /\ tasks'[t].stop \in {"retries_exhausted",
                                            "timeout_in_retry"}]_vars

\* the third attempt's answer made the payload too large: nothing was sent in
\* this page visit and the retries are exhausted
C31_Witness ==
    \E t \in Tasks :
        /\ tasks[t].pc = "closing"
        /\ tasks[t].stop = "retries_exhausted"
        /\ tasks[t].response.kind = "too_large"
        /\ tasks[t].base_size + JsonSize(tasks[t].answer) = MAX_PAYLOAD_SIZE + 1
        /\ tasks[t].submissions = 2

\* ms is a model message followed by tool-result turns only
RoundTurns(ms) ==
    /\ ms # <<>>
    /\ ms[1].role = "assistant"
    /\ \A i \in 2..Len(ms) : ms[i].role = "tool"

DecodeAttempts(html) ==
    {a \in (1..Len(html.scripts)) \X (1..3) :
        /\ html.scripts[a[1]].atob
        /\ MatchOf(html.scripts[a[1]], a[2]) # 0}

\* the payload an attempt works on
AttemptPayload(html, a) ==
    html.scripts[a[1]].calls[MatchOf(html.scripts[a[1]], a[2])].payload

\* attempt a is made before attempt b
AttemptBefore(a, b) == a[1] < b[1] \/ (a[1] = b[1] /\ a[2] <= b[2])

\* C33: in the base64 step a payload that does not decode never aborts the
\* extraction: the result is the text of the first attempt, in the order of
\* the scripts and then of the patterns, whose payload decodes, whatever
\* failed before it; if no attempt decodes the result is the text of the
\* result container when the page has one, else the text of the whole page
C33_DecodeFailureSkipsToNextCandidate ==
    (InstrCall /\ NoResultText(probe.arg))
    => LET html == probe.arg
           good == {a \in DecodeAttempts(html) : AttemptPayload(html, a).valid}
       IN  IF good # {}
           THEN LET a == CHOOSE a \in good : \A b \in good : AttemptBefore(a, b)
                IN  probe.ret = AttemptPayload(html, a).text
           ELSE probe.ret = IF html.result_div THEN html.result_text
                            ELSE html.page_text

\* a first script whose two payloads do not decode, then a script whose
\* first payload does not decode and whose second one does
C33_Witness ==
    /\ InstrCall
    /\ ~probe.arg.result_div
    /\ probe.arg.page_text = OtherText
    /\ probe.arg.scripts =
         << [atob |-> TRUE,
             calls |-> <<AtobCall(Backtick, FALSE, FALSE, FALSE, InstrPost),
                         AtobCall("double", FALSE, FALSE, FALSE, InstrNoUrl)>>],
            [atob |-> TRUE,
             calls |-> <<AtobCall(Backtick, FALSE, FALSE, FALSE, InstrPost),
                         AtobCall("single", TRUE, TRUE, TRUE, InstrPost)>>] >>
    /\ probe.ret = InstrPost

\* a verdict naming a next page is received by task t in this step
ChainAdvances(t) ==
    /\ Acted(t)
    /\ tasks[t].pc = "submit"
    /\ tasks'[t].response.kind = "dict"
    /\ tasks'[t].response.url # NoUrl

\* the page rendered for task t in this step has instructions and a submit
\* URL: the retry loop is entered
RetryLoopEntered(t) ==
    /\ Acted(t)
    /\ tasks[t].pc = "render"
    /\ tasks'[t].submit_url # NoUrl

\* task t stops for the deadline without starting another operation (the
\* only submission of the step is the one of the attempt that failed in it,
\* refused by a client already released)
StopsForDeadline(t, reason) ==
    /\ tasks'[t].pc = "closing"
    /\ tasks'[t].stop = reason
    /\ \/ tasks'[t].submissions = tasks[t].submissions
       \/ /\ tasks[t].pc \in {"llm", "tool"}
          /\ tasks'[t].response.kind = "client_closed"
          /\ tasks'[t].submissions = tasks[t].submissions + 1

\* C34: the deadline is checked at the top of every iteration of the outer
\* loop and before every retry attempt: a check that finds the elapsed time
\* greater than the deadline sends the run to the release of the client with
\* no render, model call or submission started, a check that finds it equal
\* to or under the deadline lets the run go on; from the release the run only
\* ends.
C34_DeadlineCheckedBeforePageAndAttempt ==
    [][\A t \in Tasks :
          /\ ChainAdvances(t)
             => IF tasks'[t].elapsed > QUIZ_TIMEOUT
                THEN StopsForDeadline(t, "timeout")
                ELSE /\ tasks'[t].pc = "render"
                     /\ tasks'[t].current_url = tasks'[t].response.url
          /\ RetryLoopEntered(t)
             => IF tasks'[t].elapsed > QUIZ_TIMEOUT
                THEN StopsForDeadline(t, "timeout_in_retry")
                ELSE /\ tasks'[t].pc = "llm"
                     /\ tasks'[t].attempt = 0
                     /\ tasks'[t].iteration = 1
          /\ (AttemptFailed(t) /\ tasks[t].attempt + 1 < max_retries)
             => IF tasks'[t].elapsed > QUIZ_TIMEOUT
                THEN StopsForDeadline(t, "timeout_in_retry")
                ELSE NextAttempt(t)
          /\ (Acted(t) /\ tasks[t].pc = "closing") => tasks'[t].pc = "done"]_vars

\* a run stopped at the top of the outer loop, on the second page of its
\* chain, past the deadline
C34_Witness ==
    \E t \in Tasks :
        /\ tasks[t].pc = "closing"
        /\ tasks[t].stop = "timeout"
        /\ tasks[t].elapsed > QUIZ_TIMEOUT
        /\ tasks[t].current_url # tasks[t].url
        /\ tasks[t].current_url = tasks[t].response.url
        /\ tasks[t].submissions >= 1

\* task t hands a payload to _submit_answer in this step: it is posted, or
\* refused at once by a released client or for its size
Submits(t) ==
    /\ Acted(t)
    /\ tasks[t].pc \in {"llm", "tool"}
    /\ \/ tasks'[t].submissions > tasks[t].submissions
       \/ tasks'[t].response.kind = "too_large"

\* C35: the url of every payload is the URL of the page being solved, the one
\* the answer was computed for: never the submit URL, and not the URL the
\* task was started with once the chain has moved to another page; the email
\* and the secret of every payload are those the task was started with, which
\* no step of the chain changes.
C35_PayloadNamesCurrentPage ==
    [][\A t \in Tasks :
          /\ Submits(t)
             => /\ tasks'[t].submit_args.quiz_url = tasks[t].current_url
                /\ tasks'[t].submit_args.quiz_url = tasks[t].solve_args.url
                /\ tasks'[t].submit_args.quiz_url # tasks'[t].submit_args.submit_url
                /\ tasks[t].current_url # tasks[t].url
                     => tasks'[t].submit_args.quiz_url # tasks[t].url
                /\ tasks'[t].submit_args.email = tasks[t].email
                /\ tasks'[t].submit_args.secret = tasks[t].secret
          /\ (Acted(t) /\ tasks'[t].submissions > tasks[t].submissions)
             => Submits(t)
          /\ (Acted(t) /\ tasks[t].pc \notin {"idle", "done"}
                       /\ tasks'[t].pc \notin {"idle", "done"})
             => /\ tasks'[t].email = tasks[t].email
                /\ tasks'[t].secret = tasks[t].secret
                /\ tasks'[t].url = tasks[t].url]_vars

\* a submission in flight for the second page of a chain, for a task started
\* with another URL and with the long address
C35_Witness ==
    \E t \in Tasks :
        /\ tasks[t].pc = "submit"
        /\ tasks[t].url = "https://q/1"
        /\ tasks[t].current_url = "https://q/2"
        /\ tasks[t].result.url = "https://q/2"
        /\ tasks[t].email = LongEmail
        /\ tasks[t].submit_args =
             [submit_url |-> SubmitUrlA, email |-> LongEmail,
              secret |-> SECRET, quiz_url |-> "https://q/2"]

\* the invocation of the Answer Engine that task t awaits ends in this step
\* without an answer to submit
EngineEndsWithoutAnswer(t) ==
    /\ Acted(t)
    /\ tasks[t].pc \in {"llm", "tool"}
    /\ tasks'[t].pc \notin {"tool", "submit"}
    /\ ~(tasks'[t].pc = "llm" /\ tasks'[t].attempt = tasks[t].attempt)

\* C37: no step of the Answer Engine ends the run by an exception.  When the
\* arguments of a requested tool call are not valid JSON, or the final message
\* has no text content, the invocation returns absent: the calls after the
\* undecodable one are not dispatched, no further round of the same attempt
\* is started, nothing is submitted, and the orchestrator goes to its next
\* attempt (or stops because the attempts or the time ran out).
C37_EngineNeverRaises ==
    [][\A t \in Tasks :
          (Acted(t) /\ tasks[t].pc \in {"llm", "tool"})
          => /\ tasks'[t].stop # "exception"
             /\ tasks'[t].pc # "crashed"
             /\ (/\ tasks[t].pc = "tool"
                 /\ Len(tasks[t].tool_calls) >= 2
                 /\ tasks[t].tool_calls[2].args = "invalid_json")
                => /\ EngineEndsWithoutAnswer(t)
                   /\ tasks'[t].solve_log = "args_error"
             /\ (/\ EngineEndsWithoutAnswer(t)
                 /\ tasks'[t].solve_log \in {"args_error", "content_error"})
                => /\ AnswerAbsent(tasks'[t].answer)
                   /\ tasks'[t].tool_calls = <<>>
                   /\ tasks'[t].submissions = tasks[t].submissions
                   /\ \/ NextAttempt(t)
                      \/ /\ tasks'[t].pc = "closing"
                         /\ tasks'[t].stop \in {"retries_exhausted",
                                                "timeout_in_retry"}]_vars

\* the second call of a round had arguments that are not JSON, in the second
\* round of the first attempt: the second attempt has been started
C37_Witness ==
    \E t \in Tasks :
        /\ tasks[t].pc = "llm"
        /\ tasks[t].attempt = 1
        /\ tasks[t].iteration = 1
        /\ tasks[t].solve_log = "args_error"
        /\ AnswerAbsent(tasks[t].answer)
        /\ tasks[t].submissions = 0
        /\ tasks[t].messages = Prompts

\* C36: every run of a chain eventually stops, when every awaited operation
\* returns and takes a positive time: a run that is awaiting an operation
\* eventually releases the client and ends, also when the verdicts keep
\* naming a next page (another page, or the page just solved).
C36_EveryRunStops ==
    \A t \in Tasks :
        (tasks[t].pc \in BlockingPc \cup {"closing"}) ~> (tasks[t].pc = "done")

\* a run whose verdict named the page just solved as the next one: the page
\* was rendered and answered again, and its submission is in flight past
\* the deadline, which the next check will find
C36_Witness ==
    \E t \in Tasks :
        /\ tasks[t].pc = "submit"
        /\ tasks[t].result.kind = "dict"
        /\ tasks[t].result.url = tasks[t].url
        /\ tasks[t].current_url = tasks[t].url
        /\ tasks[t].elapsed > QUIZ_TIMEOUT
====
